---- MODULE Spec2Model ----
(***************************************************************************)
(* ExoPredict front end: the single-prediction tab (src/app/page.tsx), the *)
(* batch runner (src/components/batch-prediction.tsx), the tuning poll     *)
(* loop (components/model-tuning.tsx, polling variant) and the server      *)
(* actions they call (src/app/actions.ts).                                 *)
(*                                                                         *)
(* A React state update and the render/effect pass it triggers are one     *)
(* step.  A promise continuation runs in the step of the response that     *)
(* settles the promise.  Each component has its own specification          *)
(* (SpecBatch, SpecSingle, SpecTuning); the variables of the other         *)
(* components stay at their initial values there.                          *)
(***************************************************************************)
EXTENDS Integers, Sequences, FiniteSets, TLC

(***************************************************************************)
(* Bounds of the model                                                     *)
(***************************************************************************)
\* largest number of rows of an uploaded sheet with well-formed rows
MaxRows == 12
\* largest number of rows of the sheets with irregular rows
MaxOddRows == 3
\* status requests that may be in flight together
MaxStatusInFlight == 2
\* /tune_model requests that may be in flight together (the one of the
\* mounted instance of the tuning tab and those left behind by unmounted ones)
MaxTuneInFlight == 1
\* tuning task ids the backend hands out
MaxTasks == 2
\* the numbers a user types into the single-prediction form
MaxFormValue == 2
\* tuning runs that end with a new model saved by the backend
MaxTunedRuns == 2
\* batch runs of unmounted instances that go on at the same time
MaxDetachedRuns == 1
\* getTunedModels calls of the page in flight when the user signs in
MaxPageFetches == 1

(***************************************************************************)
(* JavaScript values that reach the code: a number, NaN, undefined, or a   *)
(* string.  A string is kept as its lexical form and the number it denotes *)
(* (lex "numeric": the whole string is the number n, "prefix": the number  *)
(* n followed by other characters, "empty": the empty string, any other    *)
(* lex: that text itself, which has no leading number).                    *)
(* Numbers are integers (the unit is irrelevant to the code).              *)
(***************************************************************************)
Num(n) == [n |-> n, t |-> "number", lex |-> "-"]
NaN == [n |-> 0, t |-> "NaN", lex |-> "-"]
Undefined == [n |-> 0, t |-> "undefined", lex |-> "-"]
Str(lex, n) == [n |-> n, t |-> "string", lex |-> lex]

\* parseFloat: the longest numeric prefix, NaN when there is none
parseFloat(v) ==
    IF v.t = "string"
    THEN IF v.lex \in {"numeric", "prefix"} THEN Num(v.n) ELSE NaN
    ELSE IF v.t = "number" THEN v ELSE NaN

\* Number(x), the coercion of z.coerce.number: the whole string must be a
\* number, the empty string is 0, undefined is NaN
CoerceNumber(v) ==
    CASE v.t = "number" -> v
      [] v.t = "string" /\ v.lex = "numeric" -> Num(v.n)
      [] v.t = "string" /\ v.lex = "empty" -> Num(0)
      [] OTHER -> NaN

(***************************************************************************)
(* lib/definitions: the two field lists and the model types                *)
(***************************************************************************)
ModelTypes == {"Kepler", "TESS"}

keplerFields ==
    << "koi_period", "koi_time0bk", "koi_impact", "koi_duration", "koi_depth",
       "koi_prad", "koi_teq", "koi_insol", "koi_model_snr", "koi_steff",
       "koi_slogg", "koi_srad", "koi_kepmag" >>

tessFields ==
    << "pl_orbper", "pl_trandurh", "pl_trandep", "pl_rade", "pl_insol",
       "pl_eqt", "st_teff", "st_logg", "st_rad", "st_dist", "st_tmag" >>

\* modelType === 'Kepler' ? keplerFields : tessFields, then .map(f => f.name)
FieldNames(mt) == IF mt = "Kepler" THEN keplerFields ELSE tessFields

Range(s) == {s[k] : k \in DOMAIN s}

toLowerCase(mt) == IF mt = "Kepler" THEN "kepler" ELSE "tess"

\* the tuned models the backend lists (model_id, model_name)
TunedModelList ==
    << [model_id |-> "k1", model_name |-> "kepler"],
       [model_id |-> "t1", model_name |-> "tess"] >>

\* the entries of the version selector: "default" and the tuned models whose
\* model_name is the lower-cased model type
VersionOptions(models, mt) ==
    {"default"} \cup
    {models[k].model_id : k \in {j \in DOMAIN models : models[j].model_name = toLowerCase(mt)}}

(***************************************************************************)
(* The remote predictor.  Whether a call succeeds is chosen per call; a    *)
(* successful call answers as a function of the request, so that two rows  *)
(* with different features get different answers.  confidence is in units  *)
(* of 1e-5 (0 .. 100000 stands for 0 .. 1).                                *)
(***************************************************************************)
Classes == << "CONFIRMED", "CANDIDATE", "FALSE POSITIVE" >>

\* the probabilities member of an answer: the confidence for the predicted
\* class, the rest shared by the two other classes
Probabilities(predicted, confidence) ==
    LET others == {c \in DOMAIN Classes : Classes[c] # predicted}
        first == CHOOSE c \in others : \A d \in others : c <= d
        rest == 100000 - confidence
    IN  [c \in DOMAIN Classes |->
            IF Classes[c] = predicted THEN confidence
            ELSE IF c = first THEN rest \div 2 ELSE rest - (rest \div 2)]

Predictor(payload) ==
    LET f == payload.features[1]
        k == IF f.t = "number" /\ f.n >= 0 THEN f.n ELSE 0
        predicted == Classes[(k % 3) + 1]
        confidence == 50000 + ((k * 7919) % 50000)
    IN  [prediction |-> predicted,
         confidence |-> confidence,
         probabilities |-> Probabilities(predicted, confidence)]

(***************************************************************************)
(* Uploaded sheets.  A file is (kind, n): n data rows of one kind.         *)
(* XLSX.utils.sheet_to_json gives one object per row, keyed by the header  *)
(* cells, without a key for an empty cell.                                 *)
(***************************************************************************)
NoFile == [kind |-> "none", n |-> 0]

RegularKinds == {"kepler", "tess"}
OddKinds == {"kepler_nocol", "kepler_gap", "kepler_neg", "kepler_str",
             "kepler_text", "kepler_extra"}

Files ==
    {[kind |-> k, n |-> n] : k \in RegularKinds, n \in 0..MaxRows} \cup
    {[kind |-> k, n |-> n] : k \in OddKinds, n \in 1..MaxOddRows}

\* the header cells of a sheet
Columns(f) ==
    CASE f.kind = "tess" -> Range(tessFields)
      [] f.kind = "kepler_nocol" -> Range(keplerFields) \ {"koi_kepmag"}
      [] f.kind = "kepler_extra" -> Range(keplerFields) \cup {"kepid", "prediction"}
      [] f.kind = "none" -> {}
      [] OTHER -> Range(keplerFields)

\* the cell of row r (1-based) in column c; Undefined stands for an empty cell
Cell(f, r, c) ==
    CASE f.kind = "kepler_gap" /\ r = 2 /\ c = "koi_impact" -> Undefined
      [] f.kind = "kepler_neg" /\ r = 2 /\ c = "koi_impact" -> Num(0 - 4)
      [] f.kind = "kepler_str" /\ c = "koi_period" -> Str("numeric", r)
      [] f.kind = "kepler_str" /\ c = "koi_depth" -> Str("prefix", r)
      [] f.kind = "kepler_text" /\ r = 2 /\ c = "koi_impact" -> Str("n/a", 0)
      [] f.kind = "kepler_extra" /\ c = "prediction" -> Str("unlabelled", 0)
      [] OTHER -> Num(r)

RowKeys(f, r) == {c \in Columns(f) : Cell(f, r, c).t # "undefined"}

sheet_to_json(f) ==
    [r \in 1..f.n |-> [c \in RowKeys(f, r) |-> Cell(f, r, c)]]

(***************************************************************************)
(* State                                                                   *)
(***************************************************************************)
VARIABLES
    \* HomePageContent
    tunedModels,
    activeTab,          \* the tab of <Tabs defaultValue="single"> that is shown
    homeFetches,        \* getTunedModels calls of fetchTunedModels not yet settled
    pageEvent,          \* the last step of the page: [kind, toast]
    \* the backend and the document store
    backendModels,      \* what GET /tuned_models lists
    storedPredictions,  \* the prediction documents written to Firestore
    \* the session and what outlives a component
    userState,          \* useUser(): "loading" (isUserLoading), "none", "signed_in"
    detachedRuns,       \* the batch runs of unmounted BatchPrediction instances that
                        \* still go on: [slot, pc, file, modelType, at]
    \* the server actions
    apiCall,            \* the last fetch that resolved: [action, response]
    apiOutcome,         \* what handleApiResponse made of it: [kind, value, message]
    \* BatchPrediction: React state
    batchModelType, batchSelectedModel, file, data, results, isLoading, progress,
    \* BatchPrediction: the run in progress (processFile / reader / runPredictions)
    batchPc,            \* "idle", "reading" (FileReader at work), "awaiting" (a chunk in flight)
    runModelType,       \* modelType and selectedModel as the run's closure captured them
    runSelectedModel,
    rows,               \* the rows parameter of runPredictions
    i,                  \* the loop variable of runPredictions
    processedResults,
    inflight,           \* predictor requests of the chunk that have not settled
    batchResults,       \* row -> response, the settled requests of the chunk
    \* BatchPrediction: history of the current run
    batchToasts,        \* the toast() calls since the file was chosen or the run started
    dispatched,         \* the offsets i of the chunks handed to getBatchPredictions
    callCount,          \* row -> number of predictor calls made for it
    failedRow,          \* the row whose predictor call failed, 0 if none
    lastChunkDone,      \* the last chunk of the current run has completed
    download,           \* the workbook the tab's last step wrote: [fileName, rows]
    \* ModelTuning (polling variant): React state of the mounted instance
    tuningMounted, isTuning, pollingTaskId,
    timers,             \* the interval timers that are set: [id, task]
    tuneInFlight,       \* tuneModel calls not yet settled: [slot, live]
    statusInFlight,     \* getTuningStatus calls not yet settled: [slot, task, live]
    \* ModelTuning: history
    tuningEvent,        \* the last step of the tab: [kind, task, live, toast, tuned]
    reported,           \* the tasks whose terminal status (SUCCESS, FAILURE) was handled
    \* SinglePredictionTab: React state, the form, the query string of the page
    searchParams, modelType, selectedModel, tabTunedModels, isLoadingPrediction,
    prediction, formValues,
    \* SinglePredictionTab: the submission in progress (onSubmit)
    singlePc,           \* "idle", "predicting", "explaining"
    submitted,          \* modelType and values as onSubmit's closure holds them
    singleRequest,      \* the request to /predict or /predict_tuned in flight
    answer,             \* what the predictor answered, kept across the explanation call
    fetchPc,            \* the getTunedModels call made on mount: "pending", "done"
    \* SinglePredictionTab: history
    singleToasts,       \* the toast() calls since the last submission started
    singleEvent         \* the last step of the tab: [kind, hadPrediction]

batchVars ==
    << batchModelType, batchSelectedModel, file, data, results, isLoading, progress,
       batchPc, runModelType, runSelectedModel, rows, i, processedResults, inflight,
       batchResults, batchToasts, dispatched, callCount, failedRow, lastChunkDone,
       download >>

tuningVars ==
    << tuningMounted, isTuning, pollingTaskId, timers, tuneInFlight, statusInFlight,
       tuningEvent, reported >>

singleVars ==
    << searchParams, modelType, selectedModel, tabTunedModels, isLoadingPrediction,
       prediction, formValues, singlePc, submitted, singleRequest, answer, fetchPc,
       singleToasts, singleEvent >>

homeVars == << tunedModels >>

pageVars == << activeTab, homeFetches, pageEvent, backendModels, storedPredictions >>

apiVars == << apiCall, apiOutcome >>

sessionVars == << userState, detachedRuns >>

vars == << homeVars, pageVars, apiVars, sessionVars, batchVars, tuningVars, singleVars >>

\* what the batch tab never writes
notBatchVars == << homeVars, pageVars, apiVars, sessionVars, tuningVars, singleVars >>

\* what the tuning tab never writes
notTuningVars == << homeVars, pageVars, apiVars, sessionVars, batchVars, singleVars >>

\* what the single-prediction tab never writes
notSingleVars == << homeVars, pageVars, apiVars, sessionVars, batchVars, tuningVars >>

\* (num / den) * 100, the argument of setProgress
Percent(num, den) == [num |-> num, den |-> den]
Is100(p) == p.num = p.den

Toast(variant, title, row) == [variant |-> variant, title |-> title, row |-> row]

(***************************************************************************)
(* HomePageContent                                                         *)
(***************************************************************************)
PEvent(kind, toast) == [kind |-> kind, toast |-> toast]

\* the page once the user is signed in: the effect on [user, fetchTunedModels]
\* has called fetchTunedModels, the first tab is shown
InitPage ==
    /\ userState = "signed_in"
    /\ detachedRuns = {}
    /\ tunedModels = << >>
    /\ activeTab = "single"
    /\ homeFetches = 1
    /\ pageEvent = PEvent("load", "none")
    /\ backendModels = TunedModelList
    /\ storedPredictions = << >>

\* fetchTunedModels of the page resolves: setTunedModels(models)
HomeFetchTunedModelsResolves ==
    /\ homeFetches > 0
    /\ homeFetches' = homeFetches - 1
    /\ tunedModels' = backendModels
    /\ pageEvent' = PEvent("models", "none")
    /\ UNCHANGED << activeTab, backendModels, storedPredictions >>
    /\ UNCHANGED << apiVars, sessionVars, batchVars, tuningVars, singleVars >>

\* ... or getTunedModels throws: console.error, no toast
HomeFetchTunedModelsRejects ==
    /\ homeFetches > 0
    /\ homeFetches' = homeFetches - 1
    /\ pageEvent' = PEvent("models_failed", "none")
    /\ UNCHANGED << tunedModels, activeTab, backendModels, storedPredictions >>
    /\ UNCHANGED << apiVars, sessionVars, batchVars, tuningVars, singleVars >>

(***************************************************************************)
(* The server actions (src/app/actions.ts): every call to the backend ends *)
(* in handleApiResponse(response).  A response is its status, its          *)
(* content-type header ("" when there is none) and its body; a body is     *)
(* JSON text (an object, with or without an error member, or null) or      *)
(* other text.                                                             *)
(***************************************************************************)
ServerActions == {"getPrediction", "getTunedPrediction", "tuneModel", "getTunedModels"}

ResponseStatuses == {200, 201, 204, 301, 400, 404, 500, 503}

ContentTypes ==
    {"", "application/json", "application/json; charset=utf-8", "text/plain", "text/html"}

JsonObject(hasError, error) ==
    [json |-> TRUE, value |-> "object", hasError |-> hasError, error |-> error]
JsonNull == [json |-> TRUE, value |-> "null", hasError |-> FALSE, error |-> ""]
Text(value) == [json |-> FALSE, value |-> value, hasError |-> FALSE, error |-> ""]

Bodies ==
    {JsonObject(TRUE, "Model not found"), JsonObject(TRUE, ""), JsonObject(FALSE, ""),
     JsonNull, Text("Internal Server Error"), Text("")}

Responses ==
    [status : ResponseStatuses, contentType : ContentTypes, body : Bodies]

\* response.ok
Ok(response) == response.status >= 200 /\ response.status <= 299

\* contentType && contentType.includes('application/json')
IsJsonContentType(contentType) ==
    contentType \in {"application/json", "application/json; charset=utf-8"}

Returned(value) == [kind |-> "returned", value |-> value, message |-> ""]
Threw(message) == [kind |-> "threw", value |-> Text(""), message |-> message]

\* response.json(): the parsed body, or the parser's SyntaxError
ResponseJson(body) == IF body.json THEN Returned(body) ELSE Threw("SyntaxError")

\* handleApiResponse gone wrong: the status is not looked at
handleApiResponseIgnoresStatus(response) == ResponseJson(response.body)

handleApiResponse(response) ==
    IF ~Ok(response)
    THEN IF IsJsonContentType(response.contentType)
         THEN LET errorData == ResponseJson(response.body)
              IN  CASE errorData.kind = "threw" -> errorData
                    [] errorData.value.value = "null" -> Threw("TypeError")
                    [] errorData.value.hasError /\ errorData.value.error # "" ->
                           Threw(errorData.value.error)
                    [] OTHER -> Threw("API request failed")
         ELSE Threw("API request failed: The server returned an unexpected error.")
    ELSE ResponseJson(response.body)

NoCall == [action |-> "none", response |-> [status |-> 0, contentType |-> "", body |-> Text("")]]

InitApi ==
    /\ apiCall = NoCall
    /\ apiOutcome = Returned(Text(""))

\* the fetch of a server action resolves with a response:
\* return handleApiResponse(response)
ApiCall(action, response) ==
    /\ apiCall' = [action |-> action, response |-> response]
    /\ apiOutcome' = handleApiResponse(response)
    /\ UNCHANGED << homeVars, pageVars, sessionVars, batchVars, tuningVars, singleVars >>

NextApi ==
    \E action \in ServerActions, response \in Responses : ApiCall(action, response)

(***************************************************************************)
(* BatchPrediction                                                         *)
(***************************************************************************)
batchSize == 10

\* no workbook was written
NoDownload == [fileName |-> << >>, rows |-> << >>]

InitBatch ==
    /\ batchModelType = "Kepler"
    /\ batchSelectedModel = "default"
    /\ file = NoFile
    /\ data = << >>
    /\ results = << >>
    /\ isLoading = FALSE
    /\ progress = Percent(0, 1)
    /\ batchPc = "idle"
    /\ runModelType = "Kepler"
    /\ runSelectedModel = "default"
    /\ rows = << >>
    /\ i = 0
    /\ processedResults = << >>
    /\ inflight = {}
    /\ batchResults = << >>
    /\ batchToasts = << >>
    /\ dispatched = << >>
    /\ callCount = << >>
    /\ failedRow = 0
    /\ lastChunkDone = FALSE
    /\ download = NoDownload

\* runPredictions has returned (or was never called): its locals are gone
RunEnded ==
    /\ batchPc' = "idle"
    /\ UNCHANGED << runModelType, runSelectedModel >>
    /\ rows' = << >>
    /\ i' = 0
    /\ processedResults' = << >>
    /\ inflight' = {}
    /\ batchResults' = << >>

runUnchanged == UNCHANGED << batchPc, runModelType, runSelectedModel, rows, i,
                             processedResults, inflight, batchResults, dispatched,
                             callCount, failedRow, lastChunkDone >>

\* <Select onValueChange={(v) => setModelType(v)} disabled={isLoading}>
SetBatchModelType(v) ==
    /\ UNCHANGED notBatchVars
    /\ download' = NoDownload
    /\ ~isLoading
    /\ v # batchModelType
    /\ batchModelType' = v
    /\ UNCHANGED << batchSelectedModel, file, data, results, isLoading, progress,
                    batchToasts >>
    /\ runUnchanged

\* <Select onValueChange={setSelectedModel} value={selectedModel} disabled={isLoading}>
SetBatchSelectedModel(v) ==
    /\ UNCHANGED notBatchVars
    /\ download' = NoDownload
    /\ ~isLoading
    /\ v \in VersionOptions(tunedModels, batchModelType)
    /\ v # batchSelectedModel
    /\ batchSelectedModel' = v
    /\ UNCHANGED << batchModelType, file, data, results, isLoading, progress,
                    batchToasts >>
    /\ runUnchanged

\* <Input type="file" onChange={handleFileChange} disabled={isLoading}/>
handleFileChange(f) ==
    /\ UNCHANGED notBatchVars
    /\ download' = NoDownload
    /\ ~isLoading
    /\ file' = f
    /\ data' = << >>
    /\ results' = << >>
    /\ progress' = Percent(0, 1)
    /\ batchToasts' = << Toast("default", "File Selected", 0) >>
    /\ dispatched' = << >>
    /\ callCount' = << >>
    /\ failedRow' = 0
    /\ lastChunkDone' = FALSE
    /\ UNCHANGED << batchModelType, batchSelectedModel, isLoading, batchPc, runModelType,
                    runSelectedModel, rows, i, processedResults, inflight, batchResults >>

\* <Button onClick={processFile} disabled={!file || isLoading}>: up to readAsBinaryString
processFile ==
    /\ UNCHANGED notBatchVars
    /\ download' = NoDownload
    /\ file # NoFile
    /\ ~isLoading
    /\ isLoading' = TRUE
    /\ batchPc' = "reading"
    /\ runModelType' = batchModelType
    /\ runSelectedModel' = batchSelectedModel
    /\ batchToasts' = << >>
    /\ dispatched' = << >>
    /\ callCount' = << >>
    /\ failedRow' = 0
    /\ lastChunkDone' = FALSE
    /\ UNCHANGED << batchModelType, batchSelectedModel, file, data, results, progress,
                    rows, i, processedResults, inflight, batchResults >>

\* reader.onerror
readerOnError ==
    /\ UNCHANGED notBatchVars
    /\ download' = NoDownload
    /\ batchPc = "reading"
    /\ batchToasts' = Append(batchToasts, Toast("destructive", "File Read Error", 0))
    /\ isLoading' = FALSE
    /\ RunEnded
    /\ UNCHANGED << batchModelType, batchSelectedModel, file, data, results, progress,
                    dispatched, callCount, failedRow, lastChunkDone >>

\* readerOnLoadCatch gone wrong: the catch block toasts and leaves the flag
readerOnLoadCatchKeepsLoading ==
    /\ UNCHANGED notBatchVars
    /\ download' = NoDownload
    /\ batchPc = "reading"
    /\ batchToasts' = Append(batchToasts, Toast("destructive", "File processing error", 0))
    /\ RunEnded
    /\ UNCHANGED << batchModelType, batchSelectedModel, file, data, results, isLoading,
                    progress, dispatched, callCount, failedRow, lastChunkDone >>

\* reader.onload, XLSX.read or sheet_to_json throws
readerOnLoadCatch ==
    /\ UNCHANGED notBatchVars
    /\ download' = NoDownload
    /\ batchPc = "reading"
    /\ batchToasts' = Append(batchToasts, Toast("destructive", "File processing error", 0))
    /\ isLoading' = FALSE
    /\ RunEnded
    /\ UNCHANGED << batchModelType, batchSelectedModel, file, data, results, progress,
                    dispatched, callCount, failedRow, lastChunkDone >>

\* the value sent for one field of one row
Feature(row, name) ==
    LET val == IF name \in DOMAIN row THEN row[name] ELSE Undefined
    IN  IF val.t = "string" THEN parseFloat(val) ELSE val

\* Payload gone wrong: the model is the schema's name whatever version is selected
PayloadOfBaseModel(row, fieldNames, useTuned, selected, mt) ==
    [model |-> toLowerCase(mt),
     features |-> [k \in DOMAIN fieldNames |-> Feature(row, fieldNames[k])]]

\* batch.map(row => ({ model: modelIdentifier, features }))
Payload(row, fieldNames, useTuned, selected, mt) ==
    [model |-> IF useTuned THEN selected ELSE toLowerCase(mt),
     features |-> [k \in DOMAIN fieldNames |-> Feature(row, fieldNames[k])]]

\* getBatchPredictions(payloads, useTuned): one call of predictionFn per payload
Requests(rs, from, to, fieldNames, useTuned, selected, mt) ==
    {[row |-> r,
      endpoint |-> IF useTuned THEN "/predict_tuned" ELSE "/predict",
      payload |-> Payload(rs[r], fieldNames, useTuned, selected, mt)] : r \in from..to}

Min(a, b) == IF a < b THEN a ELSE b
Max(a, b) == IF a > b THEN a ELSE b

\* parseFloat((confidence * 100).toFixed(2)), in units of 0.01 percent
ConfidencePercent(confidence) == (confidence + 5) \div 10

\* { ...originalRow, prediction, confidence }
ResultRow(originalRow, res) ==
    [c \in DOMAIN originalRow \cup {"prediction", "confidence"} |->
        CASE c = "prediction" -> Str(res.prediction, 0)
          [] c = "confidence" -> Num(ConfidencePercent(res.confidence))
          [] OTHER -> originalRow[c]]

\* SliceEnd gone wrong: the slice takes one row too many
SliceEndOffByOne(at, n) == Min(at + batchSize + 1, n)

\* rows.slice(i, i + batchSize): the last row (1-based) of the chunk at offset at
SliceEnd(at, n) == Min(at + batchSize, n)

\* one pass of the for loop up to the await: slice, build the payloads, call.
\* pending: the requests still in flight when the pass starts
DispatchChunk(rs, at, pending) ==
    LET to == SliceEnd(at, Len(rs))
        fieldNames == FieldNames(runModelType)
        useTuned == runSelectedModel # "default"
        calls == Max(to, Len(callCount))
    IN  /\ inflight' = pending \cup Requests(rs, at + 1, to, fieldNames, useTuned,
                                              runSelectedModel, runModelType)
        /\ batchResults' = << >>
        /\ i' = at
        /\ batchPc' = "awaiting"
        /\ UNCHANGED << runModelType, runSelectedModel >>
        /\ dispatched' = Append(dispatched, at)
        /\ callCount' = [r \in 1..calls |->
                             (IF r <= Len(callCount) THEN callCount[r] ELSE 0) +
                             (IF r \in (at + 1)..to THEN 1 ELSE 0)]

\* missingColumns gone wrong: the columns are not checked
noMissingColumns(fieldNames, firstRow) == {}

\* fieldNames.filter(name => !Object.keys(rows[0]).includes(name))
missingColumns(fieldNames, firstRow) ==
    {name \in Range(fieldNames) : name \notin DOMAIN firstRow}

\* runPredictions(rows) up to its first await or return
runPredictions(rs) ==
    LET fieldNames == FieldNames(runModelType)
    IN  /\ results' = << >>
        /\ progress' = Percent(0, 1)
        /\ IF Len(rs) > 0 /\ missingColumns(fieldNames, rs[1]) = {}
           THEN /\ rows' = rs
                /\ processedResults' = << >>
                /\ DispatchChunk(rs, 0, {})
                /\ batchToasts' =
                       Append(batchToasts, Toast("default", "File Processed", Len(rs)))
                /\ UNCHANGED << isLoading >>
           ELSE /\ batchToasts' =
                       batchToasts \o
                       << Toast("default", "File Processed", Len(rs)),
                          Toast("destructive",
                                IF Len(rs) > 0 THEN "Missing Required Columns"
                                               ELSE "Empty File", 0) >>
                /\ isLoading' = FALSE
                /\ RunEnded
                /\ UNCHANGED << dispatched, callCount >>

\* reader.onload: parse, setData, toast, runPredictions(jsonData)
readerOnLoad ==
    /\ UNCHANGED notBatchVars
    /\ download' = NoDownload
    /\ batchPc = "reading"
    /\ LET jsonData == sheet_to_json(file)
       IN  /\ data' = jsonData
           /\ runPredictions(jsonData)
    /\ UNCHANGED << batchModelType, batchSelectedModel, file, failedRow, lastChunkDone >>

\* the for loop after "await getBatchPredictions" resolved with all: the
\* results of the chunk, setResults, setProgress, and the next pass or the end
ChunkResolved(all, pending) ==
    LET len == Cardinality(DOMAIN all)
        newProcessedResults == [k \in 1..len |-> ResultRow(rows[i + k], all[i + k])]
        next == i + batchSize
    IN  /\ results' = processedResults \o newProcessedResults
        /\ progress' = Percent(i + len, Len(rows))
        /\ IF next < Len(rows)
           THEN /\ processedResults' = processedResults \o newProcessedResults
                /\ DispatchChunk(rows, next, pending)
                /\ UNCHANGED << rows, isLoading, batchToasts, lastChunkDone >>
           ELSE /\ isLoading' = FALSE
                /\ RunEnded
                /\ lastChunkDone' = TRUE
                /\ batchToasts' =
                       Append(batchToasts, Toast("default", "Predictions Complete", Len(rows)))
                /\ UNCHANGED << dispatched, callCount >>

\* Promise.all(payloads.map(...)) resolves when no call of the chunk is pending
AllSettled(pending) == pending = {}

\* a predictor call of the chunk answers 2xx; Promise.all resolves with the
\* answers in payload order once every call of the chunk has answered
PredictorResolves(req) ==
    /\ UNCHANGED notBatchVars
    /\ download' = NoDownload
    /\ batchPc = "awaiting"
    /\ req \in inflight
    /\ LET all == [r \in DOMAIN batchResults \cup {req.row} |->
                      IF r = req.row THEN Predictor(req.payload) ELSE batchResults[r]]
       IN  IF AllSettled(inflight \ {req})
           THEN ChunkResolved(all, inflight \ {req})
           ELSE /\ inflight' = inflight \ {req}
                /\ batchResults' = all
                /\ UNCHANGED << results, isLoading, progress, batchPc, i, processedResults,
                                batchToasts, dispatched, callCount, lastChunkDone,
                                runModelType, runSelectedModel, rows >>
    /\ UNCHANGED << batchModelType, batchSelectedModel, file, data, failedRow >>

\* ChunkRejected gone wrong: the message names the offset i, not the row i + 1
ChunkRejectedNamesOffset ==
    /\ batchToasts' = Append(batchToasts, Toast("destructive", "Prediction Error", i))
    /\ isLoading' = FALSE
    /\ RunEnded

\* the catch block of the loop: toast naming row i + 1, setIsLoading(false), return
ChunkRejected ==
    /\ batchToasts' = Append(batchToasts, Toast("destructive", "Prediction Error", i + 1))
    /\ isLoading' = FALSE
    /\ RunEnded

\* PredictorRejects gone wrong: the catch block shows the rows of the failing
\* chunk that were answered before the failure
PredictorRejectsShowsSettled(req) ==
    /\ UNCHANGED notBatchVars
    /\ download' = NoDownload
    /\ batchPc = "awaiting"
    /\ req \in inflight
    /\ ChunkRejected
    /\ failedRow' = req.row
    /\ results' = processedResults \o
                      [k \in 1..Cardinality(DOMAIN batchResults) |->
                          LET r == CHOOSE r \in DOMAIN batchResults :
                                       Cardinality({q \in DOMAIN batchResults : q < r}) = k - 1
                          IN  ResultRow(rows[r], batchResults[r])]
    /\ UNCHANGED << batchModelType, batchSelectedModel, file, data, progress,
                    dispatched, callCount, lastChunkDone >>

\* a predictor call of the chunk fails (handleApiResponse throws, or fetch
\* does): Promise.all rejects at once.  The other calls of the chunk go on,
\* but nothing reads their answers: they leave the state here.
PredictorRejects(req) ==
    /\ UNCHANGED notBatchVars
    /\ download' = NoDownload
    /\ batchPc = "awaiting"
    /\ req \in inflight
    /\ ChunkRejected
    /\ failedRow' = req.row
    /\ UNCHANGED << batchModelType, batchSelectedModel, file, data, results, progress,
                    dispatched, callCount, lastChunkDone >>

\* downloadResults(includeAllFeatures); the buttons are rendered when
\* results.length > 0 && !isLoading.  json_to_sheet makes a column of every
\* key, with an empty cell where the value is undefined
downloadResults(includeAllFeatures) ==
    /\ UNCHANGED notBatchVars
    /\ results # << >>
    /\ ~isLoading
    /\ LET selectedFeatureNames == Range(FieldNames(batchModelType))
           selectedData(row) ==
               [key \in selectedFeatureNames \cup {"prediction", "confidence"} |->
                   IF key \in DOMAIN row THEN row[key] ELSE Undefined]
           dataToDownload ==
               IF includeAllFeatures THEN results
               ELSE [k \in DOMAIN results |-> selectedData(results[k])]
       IN  download' =
               [fileName |-> << "prediction_results", batchModelType,
                                IF includeAllFeatures THEN "all_columns"
                                ELSE "selected_columns" >>,
                rows |-> dataToDownload]
    /\ UNCHANGED << batchModelType, batchSelectedModel, file, data, results, isLoading,
                    progress, batchToasts >>
    /\ runUnchanged

NextBatch ==
    \/ HomeFetchTunedModelsResolves
    \/ HomeFetchTunedModelsRejects
    \/ \E v \in ModelTypes : SetBatchModelType(v)
    \/ \E v \in {"default", "k1", "t1"} : SetBatchSelectedModel(v)
    \/ \E f \in Files : handleFileChange(f)
    \/ processFile
    \/ readerOnError
    \/ readerOnLoadCatch
    \/ readerOnLoad
    \/ \E req \in inflight : PredictorResolves(req)
    \/ \E req \in inflight : PredictorRejects(req)
    \/ \E includeAllFeatures \in BOOLEAN : downloadResults(includeAllFeatures)


(***************************************************************************)
(* ModelTuning, the variant that polls /tuning_status                      *)
(*                                                                         *)
(* "live" marks a request whose callbacks still reach a mounted instance:  *)
(* the state setters of an unmounted instance do nothing, its toast() and  *)
(* onModelTuned() calls still do.                                          *)
(***************************************************************************)
TaskIds == 1..MaxTasks
NoTask == 0

\* a step of the tab: the handler that ran (kind), the task id it was about,
\* whether its instance is mounted (live), the title of the toast() it made,
\* whether it called onModelTuned(), and the toast's description where the
\* code takes it from the response
Event(kind, task, live, toast, tuned) ==
    [kind |-> kind, task |-> task, live |-> live, toast |-> toast, tuned |-> tuned,
     description |-> ""]

InitTuning ==
    /\ tuningMounted = FALSE
    /\ isTuning = FALSE
    /\ pollingTaskId = NoTask
    /\ timers = {}
    /\ tuneInFlight = {}
    /\ statusInFlight = {}
    /\ tuningEvent = Event("unmount", NoTask, FALSE, "none", FALSE)
    /\ reported = {}

FreeSlots(reqs, max) == (1..max) \ {q.slot : q \in reqs}
LowestOf(S) == CHOOSE x \in S : \A y \in S : x <= y

\* ClearInterval gone wrong: the cleanup leaves the timer set
KeepInterval(ts) == ts

\* clearInterval(intervalId) in the effect's cleanup: ts is what is set
ClearInterval(ts) == {}

\* the useEffect on [pollingTaskId, ...]: the cleanup of the previous run,
\* then setInterval when there is a task id
PollEffect(task, ts) ==
    LET left == ClearInterval(ts)
        id == LowestOf((1..(Cardinality(left) + 1)) \ {tm.id : tm \in left})
    IN  IF task # NoTask THEN left \cup {[id |-> id, task |-> task]} ELSE left

\* the task ids no timer, request or state of the tab still mentions
FreshTasks ==
    TaskIds \ ({pollingTaskId} \cup {tm.task : tm \in timers}
                               \cup {q.task : q \in statusInFlight})

\* form.handleSubmit(handleTuneModel), <Button type="submit" disabled={isTuning}>:
\* up to "await tuneModel"
handleTuneModel ==
    /\ UNCHANGED notTuningVars
    /\ tuningMounted
    /\ ~isTuning
    /\ FreeSlots(tuneInFlight, MaxTuneInFlight) # {}
    /\ isTuning' = TRUE
    /\ tuneInFlight' = tuneInFlight \cup
           {[slot |-> LowestOf(FreeSlots(tuneInFlight, MaxTuneInFlight)), live |-> TRUE]}
    /\ tuningEvent' = Event("submit", NoTask, TRUE, "none", FALSE)
    /\ UNCHANGED << tuningMounted, pollingTaskId, timers, statusInFlight, reported >>

\* tuneModel resolved with a task_id: toast, setPollingTaskId(result.task_id)
TuneResolvesWithTask(req, task) ==
    /\ UNCHANGED notTuningVars
    /\ req \in tuneInFlight
    /\ task \in FreshTasks
    /\ tuneInFlight' = tuneInFlight \ {req}
    /\ tuningEvent' = Event("started", task, req.live, "Model Tuning Started", FALSE)
    /\ reported' = reported \ {task}
    /\ IF req.live
       THEN /\ pollingTaskId' = task
            /\ timers' = PollEffect(task, timers)
       ELSE UNCHANGED << pollingTaskId, timers >>
    /\ UNCHANGED << tuningMounted, isTuning, statusInFlight >>

\* tuneModel resolved with a final result, which has no task_id:
\* throw new Error("Backend did not return a task_id."), the catch block
TuneResolvesWithResult(req) ==
    /\ UNCHANGED notTuningVars
    /\ req \in tuneInFlight
    /\ tuneInFlight' = tuneInFlight \ {req}
    /\ tuningEvent' = Event("final_result", NoTask, req.live, "Tuning Error", FALSE)
    /\ isTuning' = IF req.live THEN FALSE ELSE isTuning
    /\ UNCHANGED << tuningMounted, pollingTaskId, timers, statusInFlight, reported >>

\* tuneModel threw: the catch block
TuneFails(req) ==
    /\ UNCHANGED notTuningVars
    /\ req \in tuneInFlight
    /\ tuneInFlight' = tuneInFlight \ {req}
    /\ tuningEvent' = Event("tuning_error", NoTask, req.live, "Tuning Error", FALSE)
    /\ isTuning' = IF req.live THEN FALSE ELSE isTuning
    /\ UNCHANGED << tuningMounted, pollingTaskId, timers, statusInFlight, reported >>

\* the interval callback up to "await getTuningStatus(pollingTaskId)"
TimerTick(tm) ==
    /\ UNCHANGED notTuningVars
    /\ tm \in timers
    /\ FreeSlots(statusInFlight, MaxStatusInFlight) # {}
    /\ statusInFlight' = statusInFlight \cup
           {[slot |-> LowestOf(FreeSlots(statusInFlight, MaxStatusInFlight)),
             task |-> tm.task, live |-> TRUE]}
    /\ tuningEvent' = Event("tick", tm.task, TRUE, "none", FALSE)
    /\ UNCHANGED << tuningMounted, isTuning, pollingTaskId, timers, tuneInFlight,
                    reported >>

\* setIsTuning(false); setPollingTaskId(null), and the effect's cleanup
StopPolling(req) ==
    IF req.live
    THEN /\ isTuning' = FALSE
         /\ pollingTaskId' = NoTask
         /\ timers' = IF pollingTaskId # NoTask THEN PollEffect(NoTask, timers) ELSE timers
    ELSE UNCHANGED << isTuning, pollingTaskId, timers >>

\* the interval callback after the await: statusResult.status === 'SUCCESS'
StatusSuccess(req) ==
    /\ tuningEvent' = Event("SUCCESS", req.task, req.live, "Model Tuning Completed", TRUE)
    /\ reported' = reported \cup {req.task}
    /\ StopPolling(req)

\* statusResult.error || 'An unknown error occurred during tuning.'
FailureDescription(error) ==
    IF error # "" THEN error ELSE "An unknown error occurred during tuning."

\* StatusFailure gone wrong: the failure is shown but the polling goes on
StatusFailureKeepsPolling(req, error) ==
    /\ tuningEvent' = [Event("FAILURE", req.task, req.live, "Tuning Failed", FALSE)
                          EXCEPT !.description = FailureDescription(error)]
    /\ reported' = reported \cup {req.task}
    /\ UNCHANGED << isTuning, pollingTaskId, timers >>

\* statusResult.status === 'FAILURE'
StatusFailure(req, error) ==
    /\ tuningEvent' = [Event("FAILURE", req.task, req.live, "Tuning Failed", FALSE)
                          EXCEPT !.description = FailureDescription(error)]
    /\ reported' = reported \cup {req.task}
    /\ StopPolling(req)

\* StatusPending gone wrong: a PENDING answer ends the polling
StatusPendingStops(req) ==
    /\ tuningEvent' = Event("PENDING", req.task, req.live, "none", FALSE)
    /\ UNCHANGED reported
    /\ StopPolling(req)

\* status 'PENDING': nothing, wait for the next poll
StatusPending(req) ==
    /\ tuningEvent' = Event("PENDING", req.task, req.live, "none", FALSE)
    /\ UNCHANGED << isTuning, pollingTaskId, timers, reported >>

\* getTuningStatus threw: the catch block of the callback
StatusError(req) ==
    /\ tuningEvent' = Event("ERROR", req.task, req.live, "Polling Error", FALSE)
    /\ UNCHANGED reported
    /\ StopPolling(req)

\* a status request settles: res is { status, error? }, or the call threw
\* (status "ERROR")
StatusResponds(req, res) ==
    /\ UNCHANGED notTuningVars
    /\ req \in statusInFlight
    /\ statusInFlight' = statusInFlight \ {req}
    /\ CASE res.status = "SUCCESS" -> StatusSuccess(req)
         [] res.status = "FAILURE" -> StatusFailure(req, res.error)
         [] res.status = "PENDING" -> StatusPending(req)
         [] OTHER -> StatusError(req)
    /\ UNCHANGED << tuningMounted, tuneInFlight >>

\* the user leaves the tuning tab: the effect's cleanup runs, the state goes
UnmountTuning ==
    /\ UNCHANGED notTuningVars
    /\ tuningMounted
    /\ tuningMounted' = FALSE
    /\ isTuning' = FALSE
    /\ pollingTaskId' = NoTask
    /\ timers' = ClearInterval(timers)
    /\ tuneInFlight' = {[q EXCEPT !.live = FALSE] : q \in tuneInFlight}
    /\ statusInFlight' = {[q EXCEPT !.live = FALSE] : q \in statusInFlight}
    /\ tuningEvent' = Event("unmount", NoTask, FALSE, "none", FALSE)
    /\ UNCHANGED reported

\* the user opens the tuning tab again: a new instance
MountTuning ==
    /\ UNCHANGED notTuningVars
    /\ ~tuningMounted
    /\ tuningMounted' = TRUE
    /\ tuningEvent' = Event("mount", NoTask, TRUE, "none", FALSE)
    /\ UNCHANGED << isTuning, pollingTaskId, timers, tuneInFlight, statusInFlight,
                    reported >>

Statuses == {"PENDING", "SUCCESS", "FAILURE", "ERROR"}

\* the answers of GET /tuning_status/{task_id}; error is the server's text,
\* "" when the answer has none
StatusResults ==
    {[status |-> st, error |-> ""] : st \in Statuses} \cup
    {[status |-> "FAILURE", error |-> "grid search ran out of memory"]}

NextTuning ==
    \/ handleTuneModel
    \/ \E req \in tuneInFlight, task \in TaskIds : TuneResolvesWithTask(req, task)
    \/ \E req \in tuneInFlight : TuneResolvesWithResult(req)
    \/ \E req \in tuneInFlight : TuneFails(req)
    \/ \E tm \in timers : TimerTick(tm)
    \/ \E req \in statusInFlight, res \in StatusResults : StatusResponds(req, res)
    \/ UnmountTuning
    \/ MountTuning


(***************************************************************************)
(* SinglePredictionTab                                                     *)
(***************************************************************************)
EmptyString == Str("empty", 0)

\* getInitialValues(fields): every field name with ""
getInitialValues(fieldNames) == [name \in Range(fieldNames) |-> EmptyString]

\* the query strings a page load can carry: none, the parameters the prompt
\* page generated for a schema (?<field>=<number>...&modelType=<schema>), or
\* only some of them
NoParams == << >>

GeneratedParams(mt, names) ==
    [key \in names \cup {"modelType"} |->
        IF key = "modelType" THEN Str(mt, 0)
        ELSE Str("numeric", 100 + (CHOOSE k \in DOMAIN FieldNames(mt) :
                                       FieldNames(mt)[k] = key))]

\* values of a hand-written query string: text, a number followed by text,
\* a negative number, zero, nothing
OddQueryValues ==
    {Str("abc", 0), Str("prefix", 5), Str("numeric", 0 - 3), Str("numeric", 0),
     EmptyString}

SearchParamSets ==
    { NoParams,
      GeneratedParams("Kepler", Range(keplerFields)),
      GeneratedParams("TESS", Range(tessFields)),
      GeneratedParams("TESS", {"pl_orbper", "st_tmag"}) } \cup
    { [GeneratedParams("Kepler", Range(keplerFields)) EXCEPT !["koi_period"] = v] :
          v \in OddQueryValues }

\* ClearPrediction gone wrong: the effect leaves the displayed prediction
KeepPrediction(p) == p

NoPrediction == [class |-> "null", confidence |-> 0, explanation |-> ""]

\* setPrediction(null) in the effect on [modelType, ...]
ClearPrediction(p) == NoPrediction

\* the form after the effect on [modelType, form, searchParams, toast]:
\* form.reset(getInitialValues(newFields)), then form.reset(valuesToSet) when
\* the query names this model type and at least one of its fields
EffectForm(mt, params) ==
    LET fieldNames == Range(FieldNames(mt))
        applies == /\ "modelType" \in DOMAIN params
                   /\ params["modelType"].lex = mt
        keys == IF applies THEN DOMAIN params \cap fieldNames ELSE {}
    IN  IF keys # {}
        THEN [key \in keys |-> params[key]]
        ELSE getInitialValues(FieldNames(mt))

NoRequest == [endpoint |-> "none", payload |-> [model |-> "", features |-> << >>]]
NoSubmission == [modelType |-> "none", values |-> << >>]
NoAnswer == [prediction |-> "", confidence |-> 0]

SEvent(kind, had) == [kind |-> kind, hadPrediction |-> had]

InitSingle(params) ==
    /\ searchParams = params
    /\ modelType = "Kepler"
    /\ selectedModel = "default"
    /\ tabTunedModels = << >>
    /\ isLoadingPrediction = FALSE
    /\ prediction = NoPrediction
    /\ formValues = EffectForm("Kepler", params)
    /\ singlePc = "idle"
    /\ submitted = NoSubmission
    /\ singleRequest = NoRequest
    /\ answer = NoAnswer
    /\ fetchPc = "pending"
    /\ singleToasts = << >>
    /\ singleEvent = SEvent("mount", FALSE)

\* what a user can have typed: the input's onChange stores '' or Number(value)
FormInputs(mt) ==
    LET names == FieldNames(mt)
        index(name) == CHOOSE k \in DOMAIN names : names[k] = name
        filled(p) == [name \in Range(names) |-> Num(10 * p + index(name))]
    IN  {filled(p) : p \in 1..MaxFormValue} \cup
        {[filled(1) EXCEPT ![names[k]] = v] :
            k \in {1, Len(names)}, v \in {EmptyString, Num(0), Num(0 - 3)}}

\* the user edits the form
FillForm(vals) ==
    /\ UNCHANGED notSingleVars
    /\ vals # formValues
    /\ formValues' = vals
    /\ singleEvent' = SEvent("edit", prediction # NoPrediction)
    /\ UNCHANGED << searchParams, modelType, selectedModel, tabTunedModels,
                    isLoadingPrediction, prediction, singlePc, submitted, singleRequest,
                    answer, fetchPc, singleToasts >>

\* numberField gone wrong: z.coerce.number().nonnegative()
numberFieldNonNegative(v) ==
    LET n == CoerceNumber(v) IN n.t = "number" /\ n.n >= 0

\* numberField: z.coerce.number().positive(), applied to a value of the form
numberField(v) ==
    LET n == CoerceNumber(v) IN n.t = "number" /\ n.n > 0

ValueOf(values, name) == IF name \in DOMAIN values THEN values[name] ELSE Undefined

\* zodResolver(formSchema): every field of the schema passes numberField
Valid(mt, values) ==
    \A name \in Range(FieldNames(mt)) : numberField(ValueOf(values, name))

\* the values handed to onSubmit: the parsed output of the schema
ParsedValues(mt, values) ==
    [name \in Range(FieldNames(mt)) |-> CoerceNumber(ValueOf(values, name))]

\* fields.map(field => typeof val === "string" ? parseFloat(val) : val)
Features(fieldNames, values) ==
    [k \in DOMAIN fieldNames |->
        LET val == ValueOf(values, fieldNames[k])
        IN  IF val.t = "string" THEN parseFloat(val) ELSE val]

\* the getTunedModels call of the mount effect resolves
fetchTunedModelsResolves ==
    /\ UNCHANGED notSingleVars
    /\ fetchPc = "pending"
    /\ fetchPc' = "done"
    /\ tabTunedModels' = backendModels
    /\ singleEvent' = SEvent("models", prediction # NoPrediction)
    /\ UNCHANGED << searchParams, modelType, selectedModel, isLoadingPrediction,
                    prediction, formValues, singlePc, submitted, singleRequest, answer,
                    singleToasts >>

\* fetchTunedModelsRejects gone wrong: the error is only logged
fetchTunedModelsRejectsSilently ==
    /\ UNCHANGED notSingleVars
    /\ fetchPc = "pending"
    /\ fetchPc' = "done"
    /\ singleEvent' = SEvent("models_failed", prediction # NoPrediction)
    /\ UNCHANGED << searchParams, modelType, selectedModel, tabTunedModels,
                    isLoadingPrediction, prediction, formValues, singlePc, submitted,
                    singleRequest, answer, singleToasts >>

\* ... or throws: toast "Could not load tuned models."
fetchTunedModelsRejects ==
    /\ UNCHANGED notSingleVars
    /\ fetchPc = "pending"
    /\ fetchPc' = "done"
    /\ singleToasts' = Append(singleToasts, Toast("destructive", "Error", 0))
    /\ singleEvent' = SEvent("models_failed", prediction # NoPrediction)
    /\ UNCHANGED << searchParams, modelType, selectedModel, tabTunedModels,
                    isLoadingPrediction, prediction, formValues, singlePc, submitted,
                    singleRequest, answer >>

\* handleModelChange(value) and the effect that the new modelType triggers
handleModelChange(v) ==
    /\ UNCHANGED notSingleVars
    /\ v # modelType
    /\ modelType' = v
    /\ formValues' = EffectForm(v, searchParams)
    /\ prediction' = ClearPrediction(prediction)
    /\ selectedModel' = "default"
    /\ singleEvent' = SEvent("handleModelChange", prediction # NoPrediction)
    /\ UNCHANGED << searchParams, tabTunedModels, isLoadingPrediction, singlePc,
                    submitted, singleRequest, answer, fetchPc, singleToasts >>

\* <Select onValueChange={setSelectedModel} value={selectedModel}>
setSelectedModel(v) ==
    /\ UNCHANGED notSingleVars
    /\ v \in VersionOptions(tabTunedModels, modelType)
    /\ v # selectedModel
    /\ selectedModel' = v
    /\ singleEvent' = SEvent("setSelectedModel", prediction # NoPrediction)
    /\ UNCHANGED << searchParams, modelType, tabTunedModels, isLoadingPrediction,
                    prediction, formValues, singlePc, submitted, singleRequest, answer,
                    fetchPc, singleToasts >>

\* form.handleSubmit(onSubmit) with values the schema rejects: onSubmit is not called
submitInvalid ==
    /\ UNCHANGED notSingleVars
    /\ ~isLoadingPrediction
    /\ ~Valid(modelType, formValues)
    /\ singleEvent' = SEvent("invalid", prediction # NoPrediction)
    /\ UNCHANGED << searchParams, modelType, selectedModel, tabTunedModels,
                    isLoadingPrediction, prediction, formValues, singlePc, submitted,
                    singleRequest, answer, fetchPc, singleToasts >>

\* onSubmit(values) up to "await predictionFn(payload)"; the submit button is
\* disabled while isLoadingPrediction
onSubmit ==
    /\ UNCHANGED notSingleVars
    /\ ~isLoadingPrediction
    /\ Valid(modelType, formValues)
    /\ LET values == ParsedValues(modelType, formValues)
           useTunedModel == selectedModel # "default"
       IN  /\ submitted' = [modelType |-> modelType, values |-> values]
           /\ singleRequest' =
                  [endpoint |-> IF useTunedModel THEN "/predict_tuned" ELSE "/predict",
                   payload |-> [model |-> IF useTunedModel THEN selectedModel
                                          ELSE toLowerCase(modelType),
                                features |-> Features(FieldNames(modelType), values)]]
    /\ isLoadingPrediction' = TRUE
    /\ prediction' = NoPrediction
    /\ singlePc' = "predicting"
    /\ singleToasts' = << >>
    /\ singleEvent' = SEvent("onSubmit", prediction # NoPrediction)
    /\ UNCHANGED << searchParams, modelType, selectedModel, tabTunedModels, formValues,
                    answer, fetchPc >>

\* the catch and finally blocks of onSubmit
SubmitFailed(kind) ==
    /\ singleToasts' = Append(singleToasts, Toast("destructive", "Prediction Failed", 0))
    /\ isLoadingPrediction' = FALSE
    /\ singlePc' = "idle"
    /\ submitted' = NoSubmission
    /\ singleRequest' = NoRequest
    /\ answer' = NoAnswer
    /\ singleEvent' = SEvent(kind, prediction # NoPrediction)
    /\ UNCHANGED << searchParams, modelType, selectedModel, tabTunedModels, prediction,
                    formValues, fetchPc >>

\* predictionFn resolved: const { prediction, confidence } = ..., confidencePercent,
\* then "await getExplanationForPrediction"
predictionResolves ==
    /\ UNCHANGED notSingleVars
    /\ singlePc = "predicting"
    /\ LET res == Predictor(singleRequest.payload)
       IN  answer' = [prediction |-> res.prediction, confidence |-> res.confidence]
    /\ singleRequest' = NoRequest
    /\ singlePc' = "explaining"
    /\ singleEvent' = SEvent("predicted", prediction # NoPrediction)
    /\ UNCHANGED << searchParams, modelType, selectedModel, tabTunedModels,
                    isLoadingPrediction, prediction, formValues, submitted, fetchPc,
                    singleToasts >>

\* predictionRejects gone wrong: the error is shown and the request is sent again
predictionRejectsRetries ==
    /\ UNCHANGED notSingleVars
    /\ singlePc = "predicting"
    /\ Len(singleToasts) < 1
    /\ singleToasts' = Append(singleToasts, Toast("destructive", "Prediction Failed", 0))
    /\ singleEvent' = SEvent("prediction_failed", prediction # NoPrediction)
    /\ UNCHANGED << searchParams, modelType, selectedModel, tabTunedModels,
                    isLoadingPrediction, prediction, formValues, singlePc, submitted,
                    singleRequest, answer, fetchPc >>

\* predictionRejects gone wrong: the flag is cleared on the success path only
predictionRejectsKeepsLoading ==
    /\ UNCHANGED notSingleVars
    /\ singlePc = "predicting"
    /\ singleToasts' = Append(singleToasts, Toast("destructive", "Prediction Failed", 0))
    /\ singlePc' = "idle"
    /\ submitted' = NoSubmission
    /\ singleRequest' = NoRequest
    /\ answer' = NoAnswer
    /\ singleEvent' = SEvent("prediction_failed", prediction # NoPrediction)
    /\ UNCHANGED << searchParams, modelType, selectedModel, tabTunedModels,
                    isLoadingPrediction, prediction, formValues, fetchPc >>

\* predictionFn threw (handleApiResponse on a non-2xx answer, or fetch)
predictionRejects ==
    /\ UNCHANGED notSingleVars
    /\ singlePc = "predicting"
    /\ SubmitFailed("prediction_failed")

\* the explanation arrived: setPrediction({class, confidence, explanation}), finally
explanationResolves ==
    /\ UNCHANGED notSingleVars
    /\ singlePc = "explaining"
    /\ prediction' = [class |-> answer.prediction, confidence |-> answer.confidence,
                      explanation |-> "explanation"]
    /\ isLoadingPrediction' = FALSE
    /\ singlePc' = "idle"
    /\ submitted' = NoSubmission
    /\ singleRequest' = NoRequest
    /\ answer' = NoAnswer
    /\ singleEvent' = SEvent("explained", prediction # NoPrediction)
    /\ UNCHANGED << searchParams, modelType, selectedModel, tabTunedModels, formValues,
                    fetchPc, singleToasts >>

\* explanationRejects gone wrong: the prediction is shown without the explanation,
\* next to the error
explanationRejectsShowsBoth ==
    /\ UNCHANGED notSingleVars
    /\ singlePc = "explaining"
    /\ prediction' = [class |-> answer.prediction, confidence |-> answer.confidence,
                      explanation |-> ""]
    /\ singleToasts' = Append(singleToasts, Toast("destructive", "Prediction Failed", 0))
    /\ isLoadingPrediction' = FALSE
    /\ singlePc' = "idle"
    /\ submitted' = NoSubmission
    /\ singleRequest' = NoRequest
    /\ answer' = NoAnswer
    /\ singleEvent' = SEvent("explanation_failed", prediction # NoPrediction)
    /\ UNCHANGED << searchParams, modelType, selectedModel, tabTunedModels, formValues,
                    fetchPc >>

\* getExplanationForPrediction threw: catch, finally; setPrediction is skipped
explanationRejects ==
    /\ UNCHANGED notSingleVars
    /\ singlePc = "explaining"
    /\ SubmitFailed("explanation_failed")

NextSingle ==
    \/ \E mt \in ModelTypes : \E vals \in FormInputs(mt) :
           mt = modelType /\ FillForm(vals)
    \/ fetchTunedModelsResolves
    \/ fetchTunedModelsRejects
    \/ \E v \in ModelTypes : handleModelChange(v)
    \/ \E v \in {"default", "k1", "t1"} : setSelectedModel(v)
    \/ submitInvalid
    \/ onSubmit
    \/ predictionResolves
    \/ predictionRejects
    \/ explanationResolves
    \/ explanationRejects

(***************************************************************************)
(* The page with the ModelTuning it imports (components/model-tuning.tsx): *)
(* tuneModel is awaited to its final result, and onModelTuned is the       *)
(* page's fetchTunedModels.  <TabsContent> renders the tab that is shown:  *)
(* a tab that is left is unmounted, a tab that is entered is a new         *)
(* instance.  The callbacks of a request that is in flight when its tab is *)
(* left still run: the toast() and onModelTuned() calls take effect, the   *)
(* state setters do nothing.                                               *)
(***************************************************************************)
Tabs == {"single", "batch", "tuning"}

\* the models the backend saves, in the order of the tuning runs
NewModels ==
    << [model_id |-> "k2", model_name |-> "kepler"],
       [model_id |-> "t2", model_name |-> "tess"],
       [model_id |-> "k3", model_name |-> "kepler"],
       [model_id |-> "t3", model_name |-> "tess"] >>

TunedRuns == Len(backendModels) - Len(TunedModelList)

\* SinglePredictionTab as it is mounted (fetch "pending": the mount effect has
\* called fetchTunedModels) or after it was unmounted
ResetSingle(fetch) ==
    /\ modelType' = "Kepler"
    /\ selectedModel' = "default"
    /\ tabTunedModels' = << >>
    /\ isLoadingPrediction' = FALSE
    /\ prediction' = NoPrediction
    /\ formValues' = EffectForm("Kepler", searchParams)
    /\ singlePc' = "idle"
    /\ submitted' = NoSubmission
    /\ singleRequest' = NoRequest
    /\ answer' = NoAnswer
    /\ fetchPc' = fetch
    /\ singleToasts' = << >>
    /\ singleEvent' = SEvent("mount", FALSE)
    /\ UNCHANGED searchParams

\* the single tab is entered, left, or not concerned by a change of tab
RemountSingle(t) ==
    CASE t = "single" -> ResetSingle("pending")
      [] activeTab = "single" -> ResetSingle("unmounted")
      [] OTHER -> UNCHANGED singleVars

\* BatchPrediction as it is mounted
ResetBatch ==
    /\ batchModelType' = "Kepler"
    /\ batchSelectedModel' = "default"
    /\ file' = NoFile
    /\ data' = << >>
    /\ results' = << >>
    /\ isLoading' = FALSE
    /\ progress' = Percent(0, 1)
    /\ batchPc' = "idle"
    /\ runModelType' = "Kepler"
    /\ runSelectedModel' = "default"
    /\ rows' = << >>
    /\ i' = 0
    /\ processedResults' = << >>
    /\ inflight' = {}
    /\ batchResults' = << >>
    /\ batchToasts' = << >>
    /\ dispatched' = << >>
    /\ callCount' = << >>
    /\ failedRow' = 0
    /\ lastChunkDone' = FALSE
    /\ download' = NoDownload

\* the batch tab is left: its state is gone, but a run in progress goes on,
\* the handlers of the FileReader and the loop of runPredictions hold their
\* closure (the file, modelType, i); nothing cancels them
UnmountBatch ==
    /\ batchPc # "idle" => FreeSlots(detachedRuns, MaxDetachedRuns) # {}
    /\ detachedRuns' =
           IF batchPc = "idle" THEN detachedRuns
           ELSE detachedRuns \cup
                    {[slot |-> LowestOf(FreeSlots(detachedRuns, MaxDetachedRuns)),
                      pc |-> batchPc, file |-> file, modelType |-> runModelType,
                      at |-> i]}
    /\ ResetBatch

\* the FileReader of an unmounted instance ends: reader.onload calls
\* runPredictions(jsonData), whose state setters do nothing; the loop starts
\* when the sheet has rows and the columns of the schema
DetachedReaderEnds(run, loaded) ==
    /\ run \in detachedRuns
    /\ run.pc = "reading"
    /\ LET rs == sheet_to_json(run.file)
           starts == /\ loaded
                     /\ Len(rs) > 0
                     /\ missingColumns(FieldNames(run.modelType), rs[1]) = {}
       IN  detachedRuns' = (detachedRuns \ {run}) \cup
                               (IF starts THEN {[run EXCEPT !.pc = "awaiting", !.at = 0]}
                                ELSE {})
    /\ UNCHANGED << homeVars, pageVars, apiVars, userState, batchVars, tuningVars,
                    singleVars >>

\* "await getBatchPredictions" of an unmounted instance settles: the next
\* pass of the loop when it resolved and rows are left, the end otherwise
DetachedChunkSettles(run, resolved) ==
    /\ run \in detachedRuns
    /\ run.pc = "awaiting"
    /\ LET next == run.at + batchSize
       IN  detachedRuns' = (detachedRuns \ {run}) \cup
                               (IF resolved /\ next < Len(sheet_to_json(run.file))
                                THEN {[run EXCEPT !.at = next]}
                                ELSE {})
    /\ UNCHANGED << homeVars, pageVars, apiVars, userState, batchVars, tuningVars,
                    singleVars >>

\* <TabsTrigger value=t>, with the ModelTuning that awaits the result
SwitchTab(t) ==
    /\ t # activeTab
    /\ activeTab' = t
    /\ RemountSingle(t)
    /\ CASE t = "tuning" ->
               /\ tuningMounted' = TRUE
               /\ tuningEvent' = Event("mount", NoTask, TRUE, "none", FALSE)
               /\ UNCHANGED << isTuning, tuneInFlight >>
         [] activeTab = "tuning" ->
               /\ tuningMounted' = FALSE
               /\ isTuning' = FALSE
               /\ tuneInFlight' = {[q EXCEPT !.live = FALSE] : q \in tuneInFlight}
               /\ tuningEvent' = Event("unmount", NoTask, FALSE, "none", FALSE)
         [] OTHER -> UNCHANGED << tuningMounted, isTuning, tuneInFlight, tuningEvent >>
    /\ UNCHANGED << pollingTaskId, timers, statusInFlight, reported >>
    /\ UNCHANGED << tunedModels, homeFetches, pageEvent, backendModels,
                    storedPredictions >>
    /\ IF activeTab = "batch" THEN UnmountBatch ELSE UNCHANGED << batchVars, detachedRuns >>
    /\ UNCHANGED << apiVars, userState >>

\* useUser() gives another user state u (Firebase's first answer, the result
\* of initiateAnonymousSignIn, or of signOut in the header).  With a user
\* HomePageContent calls fetchTunedModels (the effect on [user, ...]) and
\* renders the tabs, the first one shown; without one it renders the sign-in
\* card, and the tab that was shown is unmounted
AuthStateChanged(u) ==
    /\ u # userState
    /\ userState' = u
    /\ activeTab' = "single"
    /\ IF u = "signed_in"
       THEN /\ homeFetches <= MaxPageFetches
            /\ homeFetches' = homeFetches + 1
            /\ ResetSingle("pending")
            /\ UNCHANGED << batchVars, detachedRuns, tuningMounted, isTuning,
                            tuneInFlight, tuningEvent >>
       ELSE /\ UNCHANGED homeFetches
            /\ ResetSingle("unmounted")
            /\ IF activeTab = "batch" THEN UnmountBatch
               ELSE UNCHANGED << batchVars, detachedRuns >>
            /\ IF activeTab = "tuning"
               THEN /\ tuningMounted' = FALSE
                    /\ isTuning' = FALSE
                    /\ tuneInFlight' = {[q EXCEPT !.live = FALSE] : q \in tuneInFlight}
                    /\ tuningEvent' = Event("unmount", NoTask, FALSE, "none", FALSE)
               ELSE UNCHANGED << tuningMounted, isTuning, tuneInFlight, tuningEvent >>
    /\ UNCHANGED << pollingTaskId, timers, statusInFlight, reported >>
    /\ UNCHANGED << tunedModels, pageEvent, backendModels, storedPredictions >>
    /\ UNCHANGED apiVars

\* handleTuneModel up to "await tuneModel(...)"; the button is disabled
\* while isTuning
AwaitedHandleTuneModel ==
    /\ tuningMounted
    /\ ~isTuning
    /\ FreeSlots(tuneInFlight, MaxTuneInFlight) # {}
    /\ isTuning' = TRUE
    /\ tuneInFlight' = tuneInFlight \cup
           {[slot |-> LowestOf(FreeSlots(tuneInFlight, MaxTuneInFlight)), live |-> TRUE]}
    /\ tuningEvent' = Event("submit", NoTask, TRUE, "none", FALSE)
    /\ UNCHANGED << tuningMounted, pollingTaskId, timers, statusInFlight, reported >>
    /\ UNCHANGED << homeVars, pageVars, apiVars, sessionVars, batchVars, singleVars >>

\* tuneModel resolved: the backend has saved the tuned model; toast,
\* onModelTuned() (the page's fetchTunedModels), finally setIsTuning(false)
AwaitedTuneResolves(req) ==
    /\ req \in tuneInFlight
    /\ TunedRuns < MaxTunedRuns
    /\ tuneInFlight' = tuneInFlight \ {req}
    /\ backendModels' = Append(backendModels, NewModels[TunedRuns + 1])
    /\ tuningEvent' = Event("completed", NoTask, req.live, "Model Tuning Completed", TRUE)
    /\ homeFetches' = homeFetches + 1
    /\ isTuning' = IF req.live THEN FALSE ELSE isTuning
    /\ UNCHANGED << tuningMounted, pollingTaskId, timers, statusInFlight, reported >>
    /\ UNCHANGED << tunedModels, activeTab, pageEvent, storedPredictions >>
    /\ UNCHANGED << apiVars, sessionVars, batchVars, singleVars >>

\* tuneModel threw: the catch block, finally setIsTuning(false)
AwaitedTuneRejects(req) ==
    /\ req \in tuneInFlight
    /\ tuneInFlight' = tuneInFlight \ {req}
    /\ tuningEvent' = Event("tuning_error", NoTask, req.live, "Tuning Error", FALSE)
    /\ isTuning' = IF req.live THEN FALSE ELSE isTuning
    /\ UNCHANGED << tuningMounted, pollingTaskId, timers, statusInFlight, reported >>
    /\ UNCHANGED << homeVars, pageVars, apiVars, sessionVars, batchVars, singleVars >>

(***************************************************************************)
(* The three tabs of the page, one at a time.  The user changes tab when   *)
(* nothing of the tab shown is in flight (what happens to a tab left with  *)
(* requests in flight is the matter of SpecTuning and SpecPage); the tab   *)
(* that is left is unmounted and its state is gone.                        *)
(***************************************************************************)
\* the sheets uploaded in SpecApp
AppFiles ==
    {[kind |-> "kepler", n |-> 0], [kind |-> "kepler", n |-> 1],
     [kind |-> "kepler", n |-> batchSize + 1], [kind |-> "tess", n |-> 2],
     [kind |-> "kepler_nocol", n |-> 1]}

Quiescent ==
    CASE activeTab = "single" -> singlePc = "idle"
      [] activeTab = "batch" -> batchPc = "idle"
      [] OTHER -> tuneInFlight = {} /\ statusInFlight = {} /\ timers = {}

\* BatchPrediction after it was unmounted, and as it is mounted
\* ModelTuning as it is mounted or after it was unmounted
ResetTuning(mounted) ==
    /\ tuningMounted' = mounted
    /\ isTuning' = FALSE
    /\ pollingTaskId' = NoTask
    /\ timers' = ClearInterval(timers)
    /\ tuneInFlight' = {}
    /\ statusInFlight' = {}
    /\ tuningEvent' = Event(IF mounted THEN "mount" ELSE "unmount", NoTask, mounted,
                            "none", FALSE)
    /\ reported' = {}

\* <TabsTrigger value=t>
SelectTab(t) ==
    /\ t # activeTab
    /\ Quiescent
    /\ activeTab' = t
    /\ RemountSingle(t)
    /\ IF activeTab = "batch" THEN ResetBatch ELSE UNCHANGED batchVars
    /\ CASE t = "tuning" -> ResetTuning(TRUE)
         [] activeTab = "tuning" -> ResetTuning(FALSE)
         [] OTHER -> UNCHANGED tuningVars
    /\ UNCHANGED << tunedModels, homeFetches, pageEvent, backendModels,
                    storedPredictions >>
    /\ UNCHANGED << apiVars, sessionVars >>

NextApp ==
    \/ HomeFetchTunedModelsResolves
    \/ HomeFetchTunedModelsRejects
    \/ \E t \in Tabs : SelectTab(t)
    \/ activeTab = "single" /\ \E mt \in ModelTypes : \E vals \in FormInputs(mt) :
           mt = modelType /\ FillForm(vals)
    \/ activeTab = "single" /\ fetchTunedModelsResolves
    \/ activeTab = "single" /\ fetchTunedModelsRejects
    \/ activeTab = "single" /\ \E v \in ModelTypes : handleModelChange(v)
    \/ activeTab = "single" /\ \E v \in {"default", "k1", "t1"} : setSelectedModel(v)
    \/ activeTab = "single" /\ submitInvalid
    \/ activeTab = "single" /\ onSubmit
    \/ activeTab = "single" /\ predictionResolves
    \/ activeTab = "single" /\ predictionRejects
    \/ activeTab = "single" /\ explanationResolves
    \/ activeTab = "single" /\ explanationRejects
    \/ activeTab = "batch" /\ \E v \in ModelTypes : SetBatchModelType(v)
    \/ activeTab = "batch" /\ \E v \in {"default", "k1", "t1"} : SetBatchSelectedModel(v)
    \/ activeTab = "batch" /\ \E f \in AppFiles : handleFileChange(f)
    \/ activeTab = "batch" /\ processFile
    \/ activeTab = "batch" /\ readerOnError
    \/ activeTab = "batch" /\ readerOnLoadCatch
    \/ activeTab = "batch" /\ readerOnLoad
    \/ activeTab = "batch" /\ \E req \in inflight : PredictorResolves(req)
    \/ activeTab = "batch" /\ \E req \in inflight : PredictorRejects(req)
    \/ activeTab = "batch" /\ \E includeAllFeatures \in BOOLEAN :
           downloadResults(includeAllFeatures)
    \/ activeTab = "tuning" /\ handleTuneModel
    \/ activeTab = "tuning" /\ \E req \in tuneInFlight, task \in TaskIds :
           TuneResolvesWithTask(req, task)
    \/ activeTab = "tuning" /\ \E req \in tuneInFlight : TuneResolvesWithResult(req)
    \/ activeTab = "tuning" /\ \E req \in tuneInFlight : TuneFails(req)
    \/ activeTab = "tuning" /\ \E tm \in timers : TimerTick(tm)
    \/ activeTab = "tuning" /\ \E req \in statusInFlight, res \in StatusResults :
           StatusResponds(req, res)

NextPage ==
    \/ HomeFetchTunedModelsResolves
    \/ HomeFetchTunedModelsRejects
    \/ \E t \in Tabs : SwitchTab(t)
    \/ fetchTunedModelsResolves
    \/ fetchTunedModelsRejects
    \/ AwaitedHandleTuneModel
    \/ \E req \in tuneInFlight : AwaitedTuneResolves(req)
    \/ \E req \in tuneInFlight : AwaitedTuneRejects(req)

(***************************************************************************)
(* Specifications                                                          *)
(***************************************************************************)
Init ==
    /\ InitPage
    /\ InitApi
    /\ InitBatch
    /\ InitTuning
    /\ InitSingle(NoParams)

\* the page loaded with any of the query strings
InitWithParams ==
    /\ InitPage
    /\ InitApi
    /\ InitBatch
    /\ InitTuning
    /\ \E params \in SearchParamSets : InitSingle(params)

SpecBatch == Init /\ [][NextBatch]_vars

\* the batch tab with one file for each path of a run (AppFiles)
NextBatchRuns ==
    \/ HomeFetchTunedModelsResolves
    \/ HomeFetchTunedModelsRejects
    \/ \E v \in ModelTypes : SetBatchModelType(v)
    \/ \E v \in {"default", "k1", "t1"} : SetBatchSelectedModel(v)
    \/ \E f \in AppFiles : handleFileChange(f)
    \/ processFile
    \/ readerOnError
    \/ readerOnLoadCatch
    \/ readerOnLoad
    \/ \E req \in inflight : PredictorResolves(req)
    \/ \E req \in inflight : PredictorRejects(req)
    \/ \E includeAllFeatures \in BOOLEAN : downloadResults(includeAllFeatures)

\* the page before Firebase has answered: isUserLoading, nothing is mounted
InitSession ==
    /\ userState = "loading"
    /\ detachedRuns = {}
    /\ tunedModels = << >>
    /\ activeTab = "single"
    /\ homeFetches = 0
    /\ pageEvent = PEvent("load", "none")
    /\ backendModels = TunedModelList
    /\ storedPredictions = << >>
    /\ InitApi
    /\ InitBatch
    /\ InitTuning
    /\ searchParams = NoParams
    /\ modelType = "Kepler"
    /\ selectedModel = "default"
    /\ tabTunedModels = << >>
    /\ isLoadingPrediction = FALSE
    /\ prediction = NoPrediction
    /\ formValues = getInitialValues(keplerFields)
    /\ singlePc = "idle"
    /\ submitted = NoSubmission
    /\ singleRequest = NoRequest
    /\ answer = NoAnswer
    /\ fetchPc = "unmounted"
    /\ singleToasts = << >>
    /\ singleEvent = SEvent("mount", FALSE)

\* the page with its header: the user signs in and out at any moment, and
\* uses the tab that is shown while signed in
NextSession ==
    \/ \E u \in {"none", "signed_in"} : AuthStateChanged(u)
    \/ HomeFetchTunedModelsResolves
    \/ HomeFetchTunedModelsRejects
    \/ userState = "signed_in" /\ \E t \in Tabs : SwitchTab(t)
    \/ fetchTunedModelsResolves
    \/ fetchTunedModelsRejects
    \/ userState = "signed_in" /\ activeTab = "single" /\
           \E vals \in FormInputs(modelType) : Valid(modelType, vals) /\ FillForm(vals)
    \/ userState = "signed_in" /\ activeTab = "single" /\ onSubmit
    \/ predictionResolves
    \/ predictionRejects
    \/ explanationResolves
    \/ explanationRejects
    \/ userState = "signed_in" /\ activeTab = "batch" /\
           handleFileChange([kind |-> "kepler", n |-> 1])
    \/ userState = "signed_in" /\ activeTab = "batch" /\ processFile
    \/ readerOnError
    \/ readerOnLoad
    \/ \E req \in inflight : PredictorResolves(req)
    \/ \E req \in inflight : PredictorRejects(req)
    \/ \E run \in detachedRuns, loaded \in BOOLEAN : DetachedReaderEnds(run, loaded)
    \/ \E run \in detachedRuns, resolved \in BOOLEAN : DetachedChunkSettles(run, resolved)
    \/ AwaitedHandleTuneModel
    \/ \E req \in tuneInFlight : AwaitedTuneResolves(req)
    \/ \E req \in tuneInFlight : AwaitedTuneRejects(req)

SpecSession == InitSession /\ [][NextSession]_vars

\* the batch tab on the page: the tab can be left and entered again at any
\* moment, also while a run is in progress
NextBatchPage ==
    \/ HomeFetchTunedModelsResolves
    \/ HomeFetchTunedModelsRejects
    \/ \E t \in {"single", "batch"} : SwitchTab(t)
    \/ fetchTunedModelsResolves
    \/ fetchTunedModelsRejects
    \/ activeTab = "batch" /\ \E v \in ModelTypes : SetBatchModelType(v)
    \/ activeTab = "batch" /\ \E v \in {"default", "k1", "t1"} : SetBatchSelectedModel(v)
    \/ activeTab = "batch" /\ \E f \in AppFiles : handleFileChange(f)
    \/ activeTab = "batch" /\ processFile
    \/ activeTab = "batch" /\ readerOnError
    \/ activeTab = "batch" /\ readerOnLoadCatch
    \/ activeTab = "batch" /\ readerOnLoad
    \/ activeTab = "batch" /\ \E req \in inflight : PredictorResolves(req)
    \/ activeTab = "batch" /\ \E req \in inflight : PredictorRejects(req)
    \/ activeTab = "batch" /\ \E includeAllFeatures \in BOOLEAN :
           downloadResults(includeAllFeatures)
    \/ \E run \in detachedRuns, loaded \in BOOLEAN : DetachedReaderEnds(run, loaded)
    \/ \E run \in detachedRuns, resolved \in BOOLEAN : DetachedChunkSettles(run, resolved)

SpecBatchPage == Init /\ [][NextBatchPage]_vars

\* the batch runner when the FileReader ends (load or error) and every
\* predictor call of a chunk returns or fails
SpecBatchLive ==
    /\ Init /\ [][NextBatchRuns]_vars
    /\ WF_vars(readerOnLoad \/ readerOnLoadCatch \/ readerOnError)
    /\ WF_vars(\E req \in inflight : PredictorResolves(req) \/ PredictorRejects(req))

SpecTuning == Init /\ [][NextTuning]_vars

SpecSingle == InitWithParams /\ [][NextSingle]_vars

\* the single-prediction tab when every call of a submission settles: the
\* predictor call returns or throws, and so does the explanation call
SpecSingleLive ==
    /\ SpecSingle
    /\ WF_vars(predictionResolves \/ predictionRejects)
    /\ WF_vars(explanationResolves \/ explanationRejects)

SpecApi == Init /\ [][NextApi]_vars

SpecPage == Init /\ [][NextPage]_vars

SpecApp == Init /\ [][NextApp]_vars

(***************************************************************************)
(* Claims about the batch runner (checked under SpecBatch)                 *)
(***************************************************************************)
\* the offset i of the chunk that holds row r (rows are 1-based, offsets 0-based)
ChunkOffset(r) == ((r - 1) \div batchSize) * batchSize

CeilDiv(a, b) == (a + b - 1) \div b

HasToast(title) == \E k \in DOMAIN batchToasts : batchToasts[k].title = title

Destructive == {k \in DOMAIN batchToasts : batchToasts[k].variant = "destructive"}

\* the run in progress or last finished got as far as parsing the sheet
SheetParsed == HasToast("File Processed")

\* C2: a run over N >= 1 rows with all columns and no predictor error issues
\* exactly ceil(N/10) chunks, and in every state the progress value is 100
\* only if the last chunk of the current run has completed
C2_ChunksAndProgress ==
    /\ HasToast("Predictions Complete") =>
           Len(dispatched) = CeilDiv(Len(data), batchSize)
    /\ Is100(progress) => lastChunkDone

\* the sheet has no rows, or lacks a column the schema mt needs
Rejectable(f, mt) ==
    f.n = 0 \/ \E k \in DOMAIN FieldNames(mt) : FieldNames(mt)[k] \notin Columns(f)

\* C3: uploaded data without rows, or without a column of the active schema,
\* is rejected with the Empty File / Missing Required Columns notification,
\* the loading flag is cleared, results stay empty and no predictor request
\* is issued at any point of the run
C3_RejectedBeforeAnyCall ==
    (SheetParsed /\ Rejectable(file, runModelType)) =>
        /\ ~isLoading
        /\ batchPc = "idle"
        /\ results = << >>
        /\ inflight = {}
        /\ dispatched = << >>
        /\ callCount = << >>
        /\ Cardinality(Destructive) = 1
        /\ batchToasts[Len(batchToasts)] =
               Toast("destructive",
                     IF file.n = 0 THEN "Empty File" ELSE "Missing Required Columns", 0)

C3_Witness ==
    /\ SheetParsed
    /\ file = [kind |-> "kepler_nocol", n |-> 2]
    /\ runModelType = "Kepler"
    /\ HasToast("Missing Required Columns")

\* C4: when a predictor call of a chunk fails, the run aborts: no request of a
\* later chunk is ever issued, the loading flag is cleared, and exactly one
\* error message is surfaced, which names the row offset of the failure (the
\* 1-based row at which the failing chunk starts)
C4_AbortOnChunkFailure ==
    failedRow # 0 =>
        /\ ~isLoading
        /\ batchPc = "idle"
        /\ inflight = {}
        /\ \A k \in DOMAIN dispatched : dispatched[k] <= ChunkOffset(failedRow)
        /\ \A r \in DOMAIN callCount :
               callCount[r] > 0 => r <= ChunkOffset(failedRow) + batchSize
        /\ Cardinality(Destructive) = 1
        /\ batchToasts[Len(batchToasts)] =
               Toast("destructive", "Prediction Error", ChunkOffset(failedRow) + 1)

C4_Witness ==
    /\ failedRow = 12
    /\ Len(results) = 10
    /\ HasToast("Prediction Error")

\* C5: the predictor is called exactly once per row of each dispatched chunk,
\* no request of chunk k+1 is issued before every request of chunk k has
\* completed, and chunks are dispatched in row order
C5_OncePerRowChunkByChunk ==
    /\ \A k \in DOMAIN dispatched : dispatched[k] = (k - 1) * batchSize
    /\ dispatched # << >> =>
           /\ Len(callCount) = Min(Len(dispatched) * batchSize, Len(data))
           /\ \A r \in DOMAIN callCount : callCount[r] = 1
    /\ dispatched = << >> => callCount = << >>
    /\ \A req \in inflight :
           /\ dispatched # << >>
           /\ ChunkOffset(req.row) = dispatched[Len(dispatched)]
    /\ \A q1, q2 \in inflight : q1.row = q2.row => q1 = q2

C5_Witness ==
    /\ Len(dispatched) = 2
    /\ Cardinality(inflight) = 2
    /\ Len(results) = 10

\* C9: after a batch run the results are a prefix of the input rows in their
\* order, and the i-th result is the i-th input row with all its original
\* columns plus the predicted class and confidence of the call made for it
AnswerFor(k) ==
    Predictor(Payload(data[k], FieldNames(runModelType), runSelectedModel # "default",
                      runSelectedModel, runModelType))

OutputColumns == {"prediction", "confidence"}

\* the full-column export has, in every row, every original column next to
\* prediction and confidence
C19_AllColumnsExport ==
    (download # NoDownload /\ download.fileName[3] = "all_columns" /\ dispatched # << >>) =>
        /\ Len(download.rows) = Len(results)
        /\ \A k \in DOMAIN download.rows :
               /\ DOMAIN download.rows[k] = DOMAIN data[k] \cup OutputColumns
               /\ \A c \in DOMAIN data[k] \ OutputColumns :
                      download.rows[k][c] = data[k][c]
               /\ download.rows[k]["prediction"] = results[k]["prediction"]
               /\ download.rows[k]["confidence"] = results[k]["confidence"]

\* the selected-column export has, in every row, exactly the fields of the
\* schema the predictions were made with, with the row's values, next to
\* prediction and confidence
C19_SelectedColumnsExport ==
    (download # NoDownload /\ download.fileName[3] = "selected_columns"
         /\ dispatched # << >>) =>
        /\ Len(download.rows) = Len(results)
        /\ \A k \in DOMAIN download.rows :
               /\ DOMAIN download.rows[k] =
                      Range(FieldNames(runModelType)) \cup OutputColumns
               /\ \A c \in Range(FieldNames(runModelType)) :
                      download.rows[k][c] =
                          (IF c \in DOMAIN data[k] THEN data[k][c] ELSE Undefined)
               /\ download.rows[k]["prediction"] = results[k]["prediction"]
               /\ download.rows[k]["confidence"] = results[k]["confidence"]

\* C19: the full-column export contains every original column plus
\* prediction and confidence; the selected-column export contains exactly
\* the field values of the schema used to produce the predictions plus
\* prediction and confidence
C19_ExportsHoldTheRunsColumns ==
    /\ C19_AllColumnsExport
    /\ C19_SelectedColumnsExport

\* C26: during and after a batch run over N rows the results never hold part
\* of a chunk: their number is a multiple of 10 or N, and after an abort in
\* the chunk that starts at row offset i they are the first i rows, with the
\* progress at i / N * 100, below 100
C26_WholeChunksOnly ==
    /\ \/ Len(results) % batchSize = 0
       \/ Len(results) = Len(data)
    /\ failedRow # 0 =>
           LET at == ChunkOffset(failedRow)
           IN  /\ Len(results) = at
               /\ \A k \in 1..at :
                      \A c \in DOMAIN data[k] \ OutputColumns : results[k][c] = data[k][c]
               /\ progress.num * Len(data) = at * progress.den
               /\ progress.num < progress.den

C26_Witness ==
    /\ failedRow = batchSize + 1
    /\ Len(data) = batchSize + 2
    /\ Len(results) = batchSize
    /\ progress = Percent(batchSize, batchSize + 2)
    /\ ~isLoading

\* C27: every batch run that processFile starts clears the loading flag in
\* the end, on each of its paths (file read error, parse error, empty file,
\* missing column, chunk failure, normal completion), when every predictor
\* call returns or fails
C27_RunClearsLoading ==
    /\ [](isLoading <=> batchPc # "idle")
    /\ (isLoading ~> ~isLoading)

C27_Witness ==
    /\ HasToast("File processing error")
    /\ ~isLoading
    /\ batchPc = "idle"
    /\ file.n = batchSize + 1

\* a run is started in the step
RunStarts == batchPc' = "reading" /\ batchPc # "reading"

IsPrefix(s, t) == Len(s) <= Len(t) /\ \A k \in DOMAIN s : s[k] = t[k]

\* the batch runs in progress: the one of the mounted instance and those of
\* instances that were unmounted
RunsInProgress == Cardinality(detachedRuns) + (IF batchPc # "idle" THEN 1 ELSE 0)

\* C28: at most one batch run is in progress at any time (a run starts only
\* when none is loading and no call of a chunk is awaited); while a run is
\* in progress the selected schema, the selected version and the selected
\* file do not change, the run works with the selections shown, and the
\* results it has computed are only extended, never replaced by another run
C28_OneRunAtATime ==
    /\ [](RunsInProgress <= 1)
    /\ [](isLoading => /\ runModelType = batchModelType
                       /\ runSelectedModel = batchSelectedModel)
    /\ [][/\ RunStarts => (~isLoading /\ batchPc = "idle" /\ inflight = {})
          /\ isLoading => /\ batchModelType' = batchModelType
                          /\ batchSelectedModel' = batchSelectedModel
                          /\ file' = file
          /\ batchPc = "awaiting" => IsPrefix(results, results')]_vars

\* the schema a tuned model was trained for: the model_name of its listing
BaseSchema(id) ==
    LET m == CHOOSE m \in Range(backendModels) : m.model_id = id
    IN  m.model_name

\* C25: in a batch run, a tuned model id sent to /predict_tuned belongs to
\* the schema whose field names built the feature vectors, whatever schema
\* and version selections were made before the run
C25_TunedModelOfTheRunsSchema ==
    \A req \in inflight :
        req.endpoint = "/predict_tuned" =>
            /\ Len(req.payload.features) = Len(FieldNames(runModelType))
            /\ BaseSchema(req.payload.model) = toLowerCase(runModelType)

(***************************************************************************)
(* Claims about the tuning poll loop (checked under SpecTuning)            *)
(***************************************************************************)
PollingStops == timers # {} /\ timers' = {}

\* a timer is set for the task id the mounted instance polls
TimerSetForPolledTask ==
    (tuningMounted /\ pollingTaskId # NoTask) =>
        \E tm \in timers : tm.task = pollingTaskId

\* a SUCCESS answer is reported, onModelTuned is called, the task is no longer polled
SuccessStep ==
    tuningEvent'.kind = "SUCCESS" =>
        LET t == tuningEvent'.task
        IN  /\ tuningEvent'.toast = "Model Tuning Completed"
            /\ tuningEvent'.tuned
            /\ t \in reported'
            /\ \A tm \in timers' : tm.task # t
            /\ tuningEvent'.live => (pollingTaskId' = NoTask /\ ~isTuning')

\* C6 as stated: once a task id is polled, status requests go on for as long
\* as the component stays mounted and no terminal status (SUCCESS or FAILURE)
\* has been received; on SUCCESS polling stops, the result is reported and
\* onModelTuned is invoked
C6_PollsUntilTerminalOrUnmount ==
    /\ []TimerSetForPolledTask
    /\ [][PollingStops => tuningEvent'.kind \in {"SUCCESS", "FAILURE", "unmount"}]_vars
    /\ [][SuccessStep]_vars

\* C6 as amended: polling also stops when a status request fails
C6_PollsUntilTerminalErrorOrUnmount ==
    /\ []TimerSetForPolledTask
    /\ [][PollingStops =>
            tuningEvent'.kind \in {"SUCCESS", "FAILURE", "ERROR", "unmount"}]_vars
    /\ [][SuccessStep]_vars

C6_Witness ==
    /\ tuningEvent = Event("SUCCESS", 1, TRUE, "Model Tuning Completed", TRUE)
    /\ reported = {1}
    /\ timers = {}
    /\ tuningMounted

\* C10: at most one poll timer is set at any time; after a terminal status or
\* the unmount no timer is left and no further status request is issued
C10_OneTimerClearedAtEnd ==
    /\ [](Cardinality(timers) <= 1)
    /\ []((~tuningMounted \/ pollingTaskId = NoTask) => timers = {})
    /\ [][tuningEvent'.kind = "tick" =>
            /\ tuningMounted
            /\ pollingTaskId = tuningEvent'.task
            /\ pollingTaskId \notin reported]_vars

C10_Witness ==
    /\ ~tuningMounted
    /\ statusInFlight # {}
    /\ timers = {}

\* C11: a tuning submission to /tune_model ends in one of two ways: a
\* response that is a final result is reported as a completed tuning, and a
\* response that carries a task id starts the polling of that id
C11_ResultReportedOrTaskPolled ==
    /\ tuningEvent.kind = "final_result" =>
           /\ tuningEvent.toast = "Model Tuning Completed"
           /\ tuningEvent.tuned
    /\ (tuningEvent.kind = "started" /\ tuningEvent.live) =>
           /\ pollingTaskId = tuningEvent.task
           /\ \E tm \in timers : tm.task = tuningEvent.task

\* C12: when a poll returns FAILURE, polling stops, the task id is discarded,
\* the tuning-in-progress flag is cleared, an error with the server's error
\* text (or the generic fallback) is surfaced and onModelTuned is not invoked
C12_FailureStopsAndReports ==
    tuningEvent.kind = "FAILURE" =>
        /\ tuningEvent.toast = "Tuning Failed"
        /\ tuningEvent.description \in
               {"grid search ran out of memory", "An unknown error occurred during tuning."}
        /\ ~tuningEvent.tuned
        /\ tuningEvent.task \in reported
        /\ tuningEvent.live =>
               /\ timers = {}
               /\ pollingTaskId = NoTask
               /\ ~isTuning

C12_Witness ==
    /\ tuningEvent.kind = "FAILURE"
    /\ tuningEvent.live
    /\ tuningEvent.description = "grid search ran out of memory"
    /\ timers = {}
    /\ statusInFlight # {}

\* a status request settled with a terminal status in the step
TerminalStep ==
    /\ statusInFlight' # statusInFlight
    /\ tuningEvent'.kind \in {"SUCCESS", "FAILURE"}

\* C24: for one tuning task the terminal outcome is reported to the user at
\* most once and onModelTuned is called at most once, whatever the order of
\* timer ticks and status answers (answers slower than the poll interval,
\* answers after the unmount)
C24_TerminalOutcomeOnce ==
    [][TerminalStep => tuningEvent'.task \notin reported]_vars

(***************************************************************************)
(* Claims about the single-prediction tab (checked under SpecSingle)       *)
(***************************************************************************)
PredictionFailedToasts ==
    Cardinality({k \in DOMAIN singleToasts : singleToasts[k].title = "Prediction Failed"})

\* the step just taken ended a submission
SubmissionEnded == singleEvent.kind \in {"explained", "prediction_failed", "explanation_failed"}

\* C1: a submission of a valid feature vector ends with exactly one of: one
\* prediction displayed, or one error surfaced; never both, never neither
\* (also when /predict succeeds and the explanation call fails)
C1_ExactlyOneOutcome ==
    SubmissionEnded =>
        /\ singlePc = "idle"
        /\ \/ prediction # NoPrediction /\ PredictionFailedToasts = 0
           \/ prediction = NoPrediction /\ PredictionFailedToasts = 1

C1_Witness ==
    /\ singleEvent.kind = "explanation_failed"
    /\ prediction = NoPrediction
    /\ PredictionFailedToasts = 1
    /\ ~isLoadingPrediction

\* C7: when the selected schema changes, the form is reset to the field set
\* of the new schema and the prediction displayed before is cleared
C7_SchemaSwitchResets ==
    singleEvent.kind = "handleModelChange" =>
        /\ prediction = NoPrediction
        /\ DOMAIN formValues \subseteq Range(FieldNames(modelType))
        /\ \A name \in DOMAIN formValues :
               \/ formValues[name] = EmptyString
               \/ name \in DOMAIN searchParams /\ formValues[name] = searchParams[name]
        /\ searchParams = NoParams => DOMAIN formValues = Range(FieldNames(modelType))

C7_Witness ==
    /\ singleEvent = SEvent("handleModelChange", TRUE)
    /\ modelType = "TESS"
    /\ prediction = NoPrediction
    /\ formValues = getInitialValues(tessFields)

(***************************************************************************)
(* Claims about the requests of both tabs                                  *)
(***************************************************************************)
\* one value per field of the schema, each a positive number
WellFormed(features, mt) ==
    /\ Len(features) = Len(FieldNames(mt))
    /\ \A k \in DOMAIN features : features[k].t = "number" /\ features[k].n > 0

\* C8: every request to /predict or /predict_tuned, from the form or from a
\* row of a batch run, carries one value per field of the active schema, in
\* the schema's order, each present, numeric and positive
C8_RequestsCarryValidFeatures ==
    /\ \A req \in inflight :
           /\ WellFormed(req.payload.features, runModelType)
           /\ \A k \in DOMAIN FieldNames(runModelType) :
                  LET name == FieldNames(runModelType)[k]
                  IN  (name \in DOMAIN rows[req.row] /\ rows[req.row][name].t = "number")
                          => req.payload.features[k] = rows[req.row][name]
    /\ singleRequest # NoRequest =>
           /\ WellFormed(singleRequest.payload.features, submitted.modelType)
           /\ \A k \in DOMAIN FieldNames(submitted.modelType) :
                  singleRequest.payload.features[k] =
                      submitted.values[FieldNames(submitted.modelType)[k]]

\* the value is a number, or the text of a number, and strictly positive
Acceptable(v) ==
    \/ v.t = "number" /\ v.n > 0
    \/ v.t = "string" /\ v.lex = "numeric" /\ v.n > 0

\* a field of the active schema is empty, not numeric or not strictly positive
SomeFieldUnacceptable ==
    \E name \in Range(FieldNames(modelType)) : ~Acceptable(ValueOf(formValues, name))

\* C16: a single-prediction submission in which any field of the active
\* schema is empty, not numeric or not strictly positive is blocked: no
\* prediction or explanation request is issued, and the displayed prediction
\* and the loading flag are left as they were
C16_InvalidSubmissionBlocked ==
    [][ (SomeFieldUnacceptable /\ singleEvent'.kind \in {"invalid", "onSubmit"}) =>
            /\ singleEvent'.kind = "invalid"
            /\ singleRequest' = singleRequest
            /\ singlePc' = singlePc
            /\ prediction' = prediction
            /\ isLoadingPrediction' = isLoadingPrediction ]_vars

C16_Witness ==
    /\ singleEvent.kind = "invalid"
    /\ singleEvent.hadPrediction
    /\ prediction # NoPrediction
    /\ ValueOf(formValues, "koi_period") = EmptyString
    /\ singlePc = "idle"

\* C22: the loading flag of the single-prediction tab is true exactly while
\* a submission is processed: a valid submission sets it, no prediction is
\* displayed while it is set, and it is cleared in the end whether the
\* prediction and explanation calls succeed or fail
C22_LoadingWhileProcessing ==
    /\ [](isLoadingPrediction <=> singlePc # "idle")
    /\ [](singleEvent.kind = "onSubmit" => isLoadingPrediction)
    /\ [](isLoadingPrediction => prediction = NoPrediction)
    /\ (isLoadingPrediction ~> ~isLoadingPrediction)

C22_Witness ==
    /\ singleEvent = SEvent("prediction_failed", FALSE)
    /\ ~isLoadingPrediction
    /\ singlePc = "idle"
    /\ modelType = "TESS"
    /\ prediction = NoPrediction

\* C29: the parameters the prompt page generated for a schema are applied
\* to the single-prediction form after the redirect: once the home page has
\* loaded with the generated query string, the form's schema is the one the
\* query names, every generated field of it holds its generated value, and
\* no key that is not a field of it is written into the form
C29_GeneratedParamsApplied ==
    (singleEvent.kind = "mount" /\ "modelType" \in DOMAIN searchParams) =>
        LET generatedFor == searchParams["modelType"].lex
            fieldNames == Range(FieldNames(generatedFor))
        IN  /\ modelType = generatedFor
            /\ \A key \in DOMAIN searchParams \cap fieldNames :
                   /\ key \in DOMAIN formValues
                   /\ formValues[key] = searchParams[key]
            /\ \A key \in DOMAIN formValues :
                   formValues[key] # EmptyString => key \in fieldNames

\* a prediction comes to be displayed in the step
PredictionDisplayed == prediction = NoPrediction /\ prediction' # NoPrediction

\* C23: a prediction that is displayed was computed from a feature vector of
\* the schema that is selected: the schema its submission was made under is
\* the schema selected when it is displayed (also when the schema was
\* switched while the submission was in flight), and a switch of schema
\* takes the displayed prediction away
C23_DisplayedUnderItsSchema ==
    [][/\ PredictionDisplayed => submitted.modelType = modelType'
       /\ (prediction # NoPrediction /\ modelType' # modelType) =>
              prediction' = NoPrediction]_vars

\* C21: after a successful single prediction the state displayed holds the
\* predicted class, the confidence and the probability of every class the
\* backend returned
C21_DisplayHoldsProbabilities ==
    singleEvent.kind = "explained" =>
        /\ prediction.class \in Range(Classes)
        /\ prediction.confidence \in 0..100000
        /\ "probabilities" \in DOMAIN prediction
        /\ DOMAIN prediction.probabilities = DOMAIN Classes

\* C20: every completed single prediction is stored, with its input, the
\* selected model, the result and a timestamp, in the document store
C20_CompletedPredictionStored ==
    singleEvent.kind = "explained" => Len(storedPredictions) >= 1

(***************************************************************************)
(* Claims about the server actions (checked under SpecApi)                 *)
(***************************************************************************)
GenericMessages ==
    {"API request failed",
     "API request failed: The server returned an unexpected error."}

C18_RefreshAfterSuccessOnly ==
    [][ tuneInFlight' # tuneInFlight /\ Cardinality(tuneInFlight') < Cardinality(tuneInFlight) =>
            /\ tuningEvent'.kind = "completed" =>
                   /\ homeFetches' = homeFetches + 1
                   /\ tuningEvent'.toast = "Model Tuning Completed"
            /\ tuningEvent'.kind = "tuning_error" => homeFetches' = homeFetches ]_vars

\* every listing the page asked for has arrived
PageListingArrived == homeFetches = 0 /\ pageEvent.kind = "models"

\* once the listing has arrived, the batch tab's selector offers what the
\* backend lists
C18_BatchTabOffersNewModel ==
    PageListingArrived =>
        \A mt \in ModelTypes :
            VersionOptions(tunedModels, mt) = VersionOptions(backendModels, mt)

\* once the listing has arrived, the single tab's selector, when its own
\* listing has arrived too, offers what the backend lists
C18_SingleTabOffersNewModel ==
    (PageListingArrived /\ activeTab = "single" /\ singleEvent.kind = "models") =>
        \A mt \in ModelTypes :
            VersionOptions(tabTunedModels, mt) = VersionOptions(backendModels, mt)

\* C18: after a tuning run completes successfully the tuned-model list is
\* fetched again, so that the newly tuned model is offered in the version
\* selector of the single-prediction tab and of the batch-prediction tab; a
\* failed tuning run does not trigger the refresh
C18_TunedModelOfferedInBothTabs ==
    /\ C18_RefreshAfterSuccessOnly
    /\ []C18_BatchTabOffersNewModel
    /\ []C18_SingleTabOffersNewModel

(***************************************************************************)
(* Claims about the whole page (checked under SpecApp)                     *)
(***************************************************************************)
\* the step starts a request of the kind named
IssuesPrediction == singleRequest' # NoRequest /\ singleRequest = NoRequest
IssuesExplanation == singlePc' = "explaining" /\ singlePc # "explaining"
IssuesListing == fetchPc' = "pending" /\ fetchPc # "pending"
IssuesBatchCalls == inflight' \ inflight # {}
IssuesTuning == tuneInFlight' \ tuneInFlight # {}
IssuesPageListing == homeFetches' > homeFetches

\* the loop of an unmounted BatchPrediction sends the calls of a chunk
IssuesDetachedCalls ==
    \E run \in detachedRuns :
        \E after \in detachedRuns' :
            /\ after.slot = run.slot
            /\ after.pc = "awaiting"
            /\ after # run

\* the tabs are rendered
TabsRendered ==
    \/ tuningMounted
    \/ fetchPc # "unmounted"
    \/ batchPc # "idle"
    \/ singlePc # "idle"
    \/ file # NoFile

\* C30: while no user is signed in, or the sign-in state is still loading, no
\* prediction, batch run, tuning submission or tuned-model fetch is started,
\* and the three tabs are rendered only in states where a user exists
C30_StartsOnlySignedIn ==
    /\ [](TabsRendered => userState = "signed_in")
    /\ [][(\/ IssuesPrediction
           \/ IssuesBatchCalls
           \/ IssuesDetachedCalls
           \/ batchPc' = "reading" /\ batchPc # "reading"
           \/ \E req \in tuneInFlight' :
                  req.slot \notin {q.slot : q \in tuneInFlight}
           \/ IssuesListing
           \/ IssuesPageListing) => userState' = "signed_in"]_vars

\* right after a request has failed, nothing of its kind is in flight
NothingInFlightAfterFailure ==
    /\ singleEvent.kind \in {"prediction_failed", "explanation_failed"} =>
           /\ singleRequest = NoRequest
           /\ singlePc = "idle"
    /\ singleEvent.kind = "models_failed" => fetchPc = "done"
    /\ failedRow # 0 =>
           /\ inflight = {}
           /\ batchPc = "idle"
           /\ \A r \in DOMAIN callCount : callCount[r] <= 1
    /\ pageEvent.kind = "models_failed" => homeFetches = 0

\* a request is started by the user's action (the submission, the run of a
\* file, the tuning submission, the opening of the tab) or by the success of
\* the request before it (the explanation after the prediction, the next
\* chunk after a chunk), never by a step that handles a failure; a tuning
\* submission that failed is gone (another one, submitted by the user after
\* a late status answer cleared the tuning flag, may still be in flight)
IssuedByUserOrSuccess ==
    /\ IssuesPrediction => singleEvent'.kind = "onSubmit"
    /\ IssuesExplanation => singleEvent'.kind = "predicted"
    /\ IssuesListing => singleEvent'.kind = "mount"
    /\ IssuesBatchCalls =>
           /\ failedRow' = 0
           /\ batchPc = "reading" \/ Len(results') > Len(results)
    /\ IssuesTuning => tuningEvent'.kind = "submit"
    /\ (tuningEvent'.kind \in {"tuning_error", "final_result"} /\ tuningVars' # tuningVars) =>
           /\ tuneInFlight' \subseteq tuneInFlight
           /\ tuneInFlight' # tuneInFlight
    /\ ~IssuesPageListing

LastToast(toasts) == toasts[Len(toasts)]

\* the failures of the tabs are each shown as a destructive toast
TabFailuresNotified ==
    /\ singleEvent.kind \in {"prediction_failed", "explanation_failed"} =>
           /\ singleToasts # << >>
           /\ LastToast(singleToasts).variant = "destructive"
           /\ LastToast(singleToasts).title = "Prediction Failed"
    /\ singleEvent.kind = "models_failed" =>
           /\ singleToasts # << >>
           /\ LastToast(singleToasts).variant = "destructive"
           /\ LastToast(singleToasts).title = "Error"
    /\ failedRow # 0 =>
           /\ batchToasts # << >>
           /\ LastToast(batchToasts).variant = "destructive"
           /\ LastToast(batchToasts).title = "Prediction Error"
           /\ LastToast(batchToasts).row = failedRow - ((failedRow - 1) % batchSize)
    /\ tuningEvent.kind \in {"tuning_error", "final_result"} =>
           tuningEvent.toast = "Tuning Error"
    /\ tuningEvent.kind = "ERROR" => tuningEvent.toast = "Polling Error"

\* C14 as stated: every failed call of the application (prediction,
\* explanation, batch chunk, tuning submission, tuning status, tuned-model
\* listing) results in a notification shown to the user
C14_EveryFailureNotified ==
    /\ TabFailuresNotified
    /\ pageEvent.kind = "models_failed" => pageEvent.toast # "none"

\* C14: every failed prediction, explanation, batch chunk, tuning
\* submission, tuning status call and tuned-model listing of the single tab
\* results in a notification; a failed tuned-model listing of the page
\* itself is only logged, without a notification
C14_FailuresNotifiedButPageListing ==
    /\ TabFailuresNotified
    /\ pageEvent.kind = "models_failed" => pageEvent.toast = "none"

C14_Witness ==
    /\ pageEvent = PEvent("models_failed", "none")
    /\ activeTab = "single"
    /\ singleEvent.kind = "models_failed"
    /\ Len(singleToasts) = 1

\* the endpoint and the model field that go with a selected version
Routed(endpoint, model, version, mt) ==
    IF version # "default"
    THEN endpoint = "/predict_tuned" /\ model = version
    ELSE endpoint = "/predict" /\ model = toLowerCase(mt)

\* every call of a batch run goes where the selected version says
BatchRouted ==
    \A req \in inflight :
        Routed(req.endpoint, req.payload.model, batchSelectedModel, batchModelType)

\* the request of a submission goes where the selected version says
SingleRouted ==
    IssuesPrediction =>
        Routed(singleRequest'.endpoint, singleRequest'.payload.model, selectedModel,
               modelType)

\* C17: a prediction request goes to /predict_tuned if and only if the
\* selected model version is not 'default', with the selected tuned model id as
\* its model field; otherwise it goes to /predict with the lower-cased schema
\* name as model.  This holds for single predictions and for every row of a
\* batch run
C17_RoutedBySelectedVersion ==
    /\ []BatchRouted
    /\ [][SingleRouted]_vars

C17_Witness ==
    /\ activeTab = "batch"
    /\ batchSelectedModel = "k1"
    /\ i = batchSize
    /\ \E req \in inflight :
           /\ req.row = batchSize + 1
           /\ req.endpoint = "/predict_tuned"
           /\ req.payload.model = "k1"

====
